---------------------------- MODULE Spec2Model ----------------------------
(***************************************************************************)
(* The polygon editing engine of ftw-editing-app (src/composables/         *)
(* useEdit.ts) with the grid selection that feeds its export               *)
(* (src/composables/useGrid.ts) and the wizard that requests its modes     *)
(* (src/components/TheWizard.vue).                                         *)
(*                                                                         *)
(* Geometry.  Every polygon of the model is an axis-parallel rectangle     *)
(* over one fixed y-range [0, 1]; it is written <<lo, hi>>, its x-range,   *)
(* with lo < hi.  A polygon without rings (GeoJSON coordinates []) is      *)
(* <<>>.  A split line is a sequence of vertices <<x, y>>; the lines drawn *)
(* here are vertical (every vertex has the same x) and reach beyond the    *)
(* y-range of the polygons.  Longitudes are counted in units of the        *)
(* split buffer distance (1e-8 degrees in the source).                     *)
(*                                                                         *)
(* Feature objects.  A Feature is [uid, geometry]; uid is the object's     *)
(* identity (ol/util getUid).  A new object gets the smallest uid that no  *)
(* object the program still refers to carries.                             *)
(***************************************************************************)
EXTENDS Integers, Sequences, FiniteSets, TLC

\* ------------------------------------------------------------------ bounds
\* the most features the Store holds in a checked run
MaxFeatures == 3
\* the deepest undo history of a checked run
MaxUndo == 2
\* the most grid cell fetches in flight at once
MaxFetches == 2
\* the most files a checked run downloads
MaxDownloads == 2

\* ------------------------------------------------------------ small helpers
Min(a, b) == IF a <= b THEN a ELSE b
Max(a, b) == IF a >= b THEN a ELSE b
Range(s) == {s[i] : i \in 1..Len(s)}

RECURSIVE Concat(_)
\* the concatenation of a sequence of sequences
Concat(ss) == IF ss = <<>> THEN <<>> ELSE Head(ss) \o Concat(Tail(ss))

\* s without the elements at the positions in drop
Without(s, drop) ==
  LET keep[i \in 0..Len(s)] ==
        IF i = 0 THEN <<>>
        ELSE IF i \in drop THEN keep[i - 1] ELSE Append(keep[i - 1], s[i])
  IN keep[Len(s)]

\* ------------------------------------------------------------- projection
\* The view projection of the map against the longitude/latitude frame of
\* GeoJSON: format.write* converts Store coordinates to longitudes and
\* format.read* converts back ({ featureProjection: ... }).
fromLonLat(x) == 2 * x
toLonLat(x) == x \div 2

\* the coordinates of one polygon, written to and read from GeoJSON
writePolygon(p) == IF p = <<>> THEN <<>> ELSE <<toLonLat(p[1]), toLonLat(p[2])>>
readPolygon(p) == IF p = <<>> THEN <<>> ELSE <<fromLonLat(p[1]), fromLonLat(p[2])>>

\* A geometry is [type, polygons]: a "Polygon" holds one polygon, a
\* "MultiPolygon" any number (GeoJSON: coordinates resp. [coordinates]).
Polygon(p) == [type |-> "Polygon", polygons |-> <<p>>]
MultiPolygon(ps) == [type |-> "MultiPolygon", polygons |-> ps]

writeGeometry(g) ==
  [type |-> g.type,
   polygons |-> [i \in 1..Len(g.polygons) |-> writePolygon(g.polygons[i])]]
readGeometry(g) ==
  [type |-> g.type,
   polygons |-> [i \in 1..Len(g.polygons) |-> readPolygon(g.polygons[i])]]

\* format.writeFeatureObject(feature, { featureProjection }): the GeoJSON
\* object of one Feature; the uid is not part of it
writeFeatureObject(feature) == writeGeometry(feature.geometry)

\* format.writeFeaturesObject(features, { featureProjection })
writeFeaturesObject(features) ==
  [i \in 1..Len(features) |-> writeFeatureObject(features[i])]

\* format.readFeature(geojson, { featureProjection }): the geometry of the
\* new Feature object
readFeature(gj) == readGeometry(gj)

\* the uids of n new objects, none of them in used
RECURSIVE freshUids(_, _)
freshUids(n, used) ==
  IF n = 0 THEN <<>>
  ELSE LET u == CHOOSE k \in 1..(Cardinality(used) + 1) :
                   k \notin used /\ \A j \in 1..(k - 1) : j \in used
       IN <<u>> \o freshUids(n - 1, used \cup {u})

\* new Feature objects holding the geometries gs (view projection)
newFeatures(gs, used) ==
  LET ids == freshUids(Len(gs), used)
  IN [i \in 1..Len(gs) |-> [uid |-> ids[i], geometry |-> gs[i]]]

\* format.readFeatures(geojson, { featureProjection })
readFeatures(collection, used) ==
  newFeatures([i \in 1..Len(collection) |-> readFeature(collection[i])], used)

\* ------------------------------------------------- polygon-clipping library
\* A MultiPolygon of the library is a sequence of polygons (longitudes).
\* The library takes a MultiPolygon as the region its polygons cover and
\* returns the connected pieces of the result, here from west to east.

\* the library rejects a polygon without an exterior ring
\* ("Input geometry is not a valid Polygon or MultiPolygon")
invalidInput(mp) == \E i \in 1..Len(mp) : mp[i] = <<>>

RECURSIVE sortPolygons(_)
\* the polygons of the set S, by lo and then hi
sortPolygons(S) ==
  IF S = {} THEN <<>>
  ELSE LET p == CHOOSE q \in S : \A r \in S :
                  q[1] < r[1] \/ (q[1] = r[1] /\ q[2] <= r[2])
       IN <<p>> \o sortPolygons(S \ {p})

\* the connected pieces of the region a sorted sequence of polygons covers:
\* polygons that overlap or share an edge are one piece
connectedPieces(sorted) ==
  LET sweep[i \in 0..Len(sorted)] ==
        IF i = 0 THEN <<>>
        ELSE LET acc == sweep[i - 1]
                 p == sorted[i]
             IN IF acc # <<>> /\ p[1] <= acc[Len(acc)][2]
                THEN [acc EXCEPT ![Len(acc)] = <<@[1], Max(@[2], p[2])>>]
                ELSE Append(acc, p)
  IN sweep[Len(sorted)]

\* polygonClipping.union(a, b)
clipUnion(a, b) == connectedPieces(sortPolygons(Range(a) \cup Range(b)))

\* what is left of polygon p outside the rectangle r
polygonMinus(p, r) ==
  (IF p[1] < r[1] THEN {<<p[1], Min(p[2], r[1])>>} ELSE {})
  \cup (IF p[2] > r[2] THEN {<<Max(p[1], r[2]), p[2]>>} ELSE {})

RECURSIVE piecesMinus(_, _)
\* what is left of the polygons of the set S outside every rectangle of rs
piecesMinus(S, rs) ==
  IF rs = <<>> THEN S
  ELSE piecesMinus(UNION {polygonMinus(p, Head(rs)) : p \in S}, Tail(rs))

\* polygonClipping.difference(a, b)
clipDifference(a, b) == connectedPieces(sortPolygons(piecesMinus(Range(a), b)))

\* polygonClipping.intersection(a, b): the pieces of positive area
clipIntersection(a, b) ==
  connectedPieces(sortPolygons(
    {x \in {<<Max(p[1], q[1]), Min(p[2], q[2])>> : p \in Range(a), q \in Range(b)} :
       x[1] < x[2]}))

\* ------------------------------------------------------ ring utilities
\* bufferDistance of splitPolygon, the unit of the longitudes
bufferDistance == 1

\* the exterior ring of the rectangle <<lo, hi>>, as GeoJSON writes it
ringOf(p) == <<<<p[1], 0>>, <<p[2], 0>>, <<p[2], 1>>, <<p[1], 1>>, <<p[1], 0>>>>

\* the rings of a polygon, and the polygon of the rings
ringsOf(p) == IF p = <<>> THEN <<>> ELSE <<ringOf(p)>>
polygonOf(rings) ==
  IF rings = <<>> THEN <<>>
  ELSE LET xs == {rings[1][i][1] : i \in 1..Len(rings[1])}
       IN <<CHOOSE x \in xs : \A z \in xs : x <= z,
            CHOOSE x \in xs : \A z \in xs : x >= z>>

\* the first loop of bufferLine: consecutive duplicate vertices removed
dedupeLine(lineCoords) ==
  LET coords[i \in 0..Len(lineCoords)] ==
        IF i = 0 THEN <<>>
        ELSE IF i = 1 THEN <<lineCoords[1]>>
        ELSE IF lineCoords[i] # coords[i - 1][Len(coords[i - 1])]
             THEN Append(coords[i - 1], lineCoords[i])
             ELSE coords[i - 1]
  IN coords[Len(lineCoords)]

\* the x-range of the rectangle bufferLine builds around the segment from a
\* to b: `distance` to either side and `distance` beyond both ends
segmentRectangle(a, b, distance) ==
  <<Min(a[1], b[1]) - distance, Max(a[1], b[1]) + distance>>

\* bufferLine without its first loop: the vertices are taken as they come
bufferLineCounted(lineCoords, distance) ==
  LET rectangles == {segmentRectangle(lineCoords[i], lineCoords[i + 1], distance) :
                       i \in 1..(Len(lineCoords) - 1)}
  IN IF Len(lineCoords) < 2
     THEN [defined |-> FALSE, polygons |-> <<>>]
     ELSE [defined |-> TRUE, polygons |-> clipUnion(sortPolygons(rectangles), <<>>)]

\* bufferLine(lineCoords, distance): [defined, polygons]
bufferLine(lineCoords, distance) ==
  LET coords == dedupeLine(lineCoords)
      rectangles == {segmentRectangle(coords[i], coords[i + 1], distance) :
                       i \in 1..(Len(coords) - 1)}
  IN IF Len(coords) < 2
     THEN [defined |-> FALSE, polygons |-> <<>>]
     ELSE [defined |-> TRUE, polygons |-> clipUnion(sortPolygons(rectangles), <<>>)]

\* x clamped to the interval between a and b
clamp(x, a, b) == Max(Min(a, b), Min(Max(a, b), x))

\* the point of the axis-parallel segment from a to b nearest to point
nearestOnSegment(point, a, b) ==
  <<clamp(point[1], a[1], b[1]), clamp(point[2], a[2], b[2])>>

distSq(p, q) == (p[1] - q[1]) * (p[1] - q[1]) + (p[2] - q[2]) * (p[2] - q[2])

\* snapToLine(point, lineCoords, thresholdSq): the point after the call
snapToLine(point, lineCoords, thresholdSq) ==
  LET n == Len(lineCoords) - 1
      \* [found, minDistSq, closest] after the first i segments
      best[i \in 0..Max(n, 0)] ==
        IF i = 0 THEN [found |-> FALSE, minDistSq |-> 0, closest |-> <<0, 0>>]
        ELSE LET q == nearestOnSegment(point, lineCoords[i], lineCoords[i + 1])
                 d == distSq(point, q)
             IN IF ~best[i - 1].found \/ d < best[i - 1].minDistSq
                THEN [found |-> TRUE, minDistSq |-> d, closest |-> q]
                ELSE best[i - 1]
      last == best[Max(n, 0)]
  IN IF last.found /\ last.minDistSq <= thresholdSq THEN last.closest ELSE point

RECURSIVE removeDuplicatesSkipping(_, _)
\* the duplicate removal with an index that moves on by two after a splice
removeDuplicatesSkipping(ring, c) ==
  IF c <= 1 THEN ring
  ELSE IF ring[c] = ring[c - 1]
       THEN removeDuplicatesSkipping(Without(ring, {c}), c - 2)
       ELSE removeDuplicatesSkipping(ring, c - 1)

RECURSIVE removeConsecutiveDuplicates(_, _)
\* the loop `for (c = ring.length - 1; c > 0; c--)` of splitPolygon, from c
removeConsecutiveDuplicates(ring, c) ==
  IF c <= 1 THEN ring
  ELSE IF ring[c] = ring[c - 1]
       THEN removeConsecutiveDuplicates(Without(ring, {c}), c - 1)
       ELSE removeConsecutiveDuplicates(ring, c - 1)

\* the ring after snapping and duplicate removal
processRing(ring, lineCoords, thresholdSq) ==
  LET snapped == [i \in 1..Len(ring) |-> snapToLine(ring[i], lineCoords, thresholdSq)]
  IN removeConsecutiveDuplicates(snapped, Len(snapped))

\* the rings of a result polygon after the post-processing of splitPolygon:
\* a ring left with fewer than 4 vertices is spliced out
processRings(rings, lineCoords, thresholdSq) ==
  LET done == [r \in 1..Len(rings) |-> processRing(rings[r], lineCoords, thresholdSq)]
  IN Without(done, {r \in 1..Len(rings) : Len(done[r]) < 4})

\* ------------------------------------------------------------------ state
VARIABLES
  map,           \* whether initEdit has set the module's map
  editMode,      \* editMode.value: "null", "draw", "split", "delete", "merge"
  editSource,    \* the Store: the Features of editSource, in insertion order
  splitSource,   \* the drawn split lines still on the split layer
  undoStack,     \* the GeoJSON snapshots, oldest first
  canUndo,       \* canUndo.value
  installed,     \* which interactions and click handlers are set
  mergeTarget,   \* the Feature object mergeTarget refers to, or NoFeature
  timers,        \* pending setTimeout(() => splitSource.clear(), 0) callbacks
  grid,          \* whether initGrid has set the module's grid layer
  selectedGridCellId, \* selectedGridCellId.value, "undefined" when none
  gridSnapSource,     \* the Features of gridSnapSource (their geometries)
  fetches,       \* the grid cell ids of the fetchGridCellFeature calls in flight
  downloads,     \* the files exportGeoJSON has handed to the browser
  exportRequested,    \* history: the cell an export was asked for while
                      \* gridSnapSource was empty, until a file is downloaded
                      \* or the selection changes; "undefined" otherwise
  lastOp,        \* history: the handler that ran last, [kind, outcome, hit,
                 \* returned]; hit is the Store position a click hit, 0 for
                 \* none; returned is the value the call gave back
  changeLog,     \* history: one entry [before, changed] for each operation
                 \* that no undo() has taken back yet, oldest first: the
                 \* Store contents before it, and whether it changed the Store
  undone,        \* history: how many undo() calls in a row, up to now,
                 \* have each taken back an operation that changed the Store
  pruning,       \* the post-processing loop of splitPolygon over one result
                 \* polygon: [phase, lineCoords, input, poly, r, coordinates]
  page           \* the page around the engine: [mapCreated, styleLoaded,
                 \* hashInit, suppressWatcher, location, pushed, microtasks]:
                 \* whether useMap() has created the map, whether the style
                 \* has loaded, whether initHash has run, suppressWatcher of
                 \* useHash, the cell id in window.location.hash, the number
                 \* of history.pushState calls, the queued microtasks

editVars == <<map, editMode, editSource, splitSource, undoStack,
              canUndo, installed, mergeTarget, timers>>
gridVars == <<grid, selectedGridCellId, gridSnapSource, fetches, downloads,
              exportRequested>>
vars == <<editVars, gridVars, lastOp, changeLog, undone, pruning, page>>

\* `undefined` where a Feature is expected
NoFeature == [uid |-> 0, geometry |-> MultiPolygon(<<>>)]

\* no result polygon is being post-processed
NoPruning ==
  [phase |-> "idle", lineCoords |-> <<>>,
   buffer |-> [defined |-> FALSE, polygons |-> <<>>],
   input |-> <<>>, poly |-> <<>>, r |-> 0,
   ring |-> [snapped |-> <<>>, kept |-> <<>>], coordinates |-> <<>>]

\* the page before any of its modules has been initialised, at a URL
\* without a hash
NoPage ==
  [mapCreated |-> FALSE, styleLoaded |-> FALSE, hashInit |-> FALSE,
   suppressWatcher |-> FALSE, location |-> "undefined", pushed |-> 0,
   microtasks |-> <<>>]

Modes == {"null", "draw", "split", "delete", "merge"}

NoInteractions ==
  [drawPolygon |-> FALSE, drawLine |-> FALSE, modify |-> FALSE, snap |-> FALSE,
   gridSnap |-> FALSE, deleteClickHandler |-> FALSE, mergeClickHandler |-> FALSE]

uidsOf(features) == {features[i].uid : i \in 1..Len(features)}

\* the uids of the Feature objects the program refers to
liveUids == uidsOf(editSource) \cup {mergeTarget.uid}

\* the position in the Store of the Feature with this uid, 0 when absent
positionOf(features, uid) ==
  IF uid \in uidsOf(features)
  THEN CHOOSE i \in 1..Len(features) : features[i].uid = uid
  ELSE 0

\* --------------------------------------------------------------- inputs
\* the polygon a draw gesture completes, and a modify gesture leaves (longitudes)
DrawInputs == {<<0, 20>>}

\* the GeoJSON collections an import loads: a polygon with a sliver thinner
\* than the split buffer on its edge, two polygons apart from each other of
\* which the split lines cut the first,
\* two MultiPolygons without polygons, and a polygon that reaches beyond the
\* split buffer by less than the snap threshold
ImportInputs ==
  {<<Polygon(<<0, 10>>), Polygon(<<9, 11>>)>>,
   <<Polygon(<<0, 20>>), Polygon(<<30, 40>>)>>,
   <<MultiPolygon(<<>>), MultiPolygon(<<>>)>>,
   <<Polygon(<<8, 11>>)>>}

\* the split lines a line gesture completes (longitudes): a cut at x = 10,
\* the same cut with a repeated vertex, and a line of one distinct vertex
SplitInputs ==
  {<< <<10, -1>>, <<10, 2>> >>,
   << <<10, -1>>, <<10, -1>>, <<10, 2>> >>,
   << <<10, 0>>, <<10, 0>> >>}

Init ==
  /\ map = FALSE
  /\ editMode = "null"
  /\ editSource = <<>>
  /\ splitSource = <<>>
  /\ undoStack = <<>>
  /\ canUndo = FALSE
  /\ installed = NoInteractions
  /\ mergeTarget = NoFeature
  /\ timers = 0
  /\ grid = FALSE
  /\ selectedGridCellId = "undefined"
  /\ gridSnapSource = <<>>
  /\ fetches = <<>>
  /\ downloads = <<>>
  /\ exportRequested = "undefined"
  /\ lastOp = [kind |-> "init", outcome |-> "none", hit |-> 0,
               returned |-> "undefined"]
  /\ changeLog = <<>>
  /\ undone = 0
  /\ pruning = NoPruning
  /\ page = NoPage

\* ------------------------------------------------------------ undo manager
\* saveSnapshot pushing the record twice
saveSnapshotTwice ==
  IF ~map
  THEN [undoStack |-> undoStack, canUndo |-> canUndo]
  ELSE [undoStack |-> undoStack \o <<writeFeaturesObject(editSource),
                                     writeFeaturesObject(editSource)>>,
        canUndo |-> TRUE]

\* saveSnapshot pushing nothing
saveSnapshotNone == [undoStack |-> undoStack, canUndo |-> canUndo]

\* saveSnapshot pushing one record for each Feature of the Store
saveSnapshotPerFeature ==
  IF ~map
  THEN [undoStack |-> undoStack, canUndo |-> canUndo]
  ELSE [undoStack |-> undoStack \o [i \in 1..Len(editSource) |->
                                      writeFeaturesObject(editSource)],
        canUndo |-> TRUE]

\* saveSnapshot writing the record over the latest one when there is one
saveSnapshotOverwrite ==
  IF ~map
  THEN [undoStack |-> undoStack, canUndo |-> canUndo]
  ELSE [undoStack |-> IF undoStack = <<>>
                      THEN <<writeFeaturesObject(editSource)>>
                      ELSE [undoStack EXCEPT ![Len(undoStack)] =
                                               writeFeaturesObject(editSource)],
        canUndo |-> TRUE]

\* saveSnapshot(): the history and canUndo.value after the call
saveSnapshot ==
  IF ~map
  THEN [undoStack |-> undoStack, canUndo |-> canUndo]
  ELSE [undoStack |-> Append(undoStack, writeFeaturesObject(editSource)),
        canUndo |-> TRUE]

\* undo() leaving canUndo.value as it finds it
undoStaleFlag ==
  IF ~map \/ Len(undoStack) = 0
  THEN [undoStack |-> undoStack, canUndo |-> canUndo, editSource |-> editSource,
        returns |-> "undefined"]
  ELSE LET geojson == undoStack[Len(undoStack)]
           rest == SubSeq(undoStack, 1, Len(undoStack) - 1)
       IN [undoStack |-> rest,
           canUndo |-> canUndo,
           editSource |-> readFeatures(geojson, {mergeTarget.uid}),
           returns |-> "undefined"]

\* undo() filling the Store from the oldest record instead of the popped one
undoOldest ==
  IF ~map \/ Len(undoStack) = 0
  THEN [undoStack |-> undoStack, canUndo |-> canUndo, editSource |-> editSource,
        returns |-> "undefined"]
  ELSE LET rest == SubSeq(undoStack, 1, Len(undoStack) - 1)
       IN [undoStack |-> rest,
           canUndo |-> Len(rest) > 0,
           editSource |-> readFeatures(undoStack[1], {mergeTarget.uid}),
           returns |-> "undefined"]

\* undo() setting canUndo.value before it finds the history empty
undoEmptySignals ==
  IF ~map \/ Len(undoStack) = 0
  THEN [undoStack |-> undoStack, canUndo |-> map, editSource |-> editSource,
        returns |-> "undefined"]
  ELSE LET geojson == undoStack[Len(undoStack)]
           rest == SubSeq(undoStack, 1, Len(undoStack) - 1)
       IN [undoStack |-> rest,
           canUndo |-> Len(rest) > 0,
           editSource |-> readFeatures(geojson, {mergeTarget.uid}),
           returns |-> "undefined"]

\* undo() reading the latest record without popping it
undoKeepsRecord ==
  IF ~map \/ Len(undoStack) = 0
  THEN [undoStack |-> undoStack, canUndo |-> canUndo, editSource |-> editSource,
        returns |-> "undefined"]
  ELSE [undoStack |-> undoStack,
        canUndo |-> TRUE,
        editSource |-> readFeatures(undoStack[Len(undoStack)], {mergeTarget.uid}),
        returns |-> "undefined"]

\* undo(): the history, canUndo.value and the Store after the call, and the
\* value the call returns (the function has no return statement with a value:
\* "undefined").  The Store is cleared and filled with new Feature objects read
\* from the record.
undo ==
  IF ~map \/ Len(undoStack) = 0
  THEN [undoStack |-> undoStack, canUndo |-> canUndo, editSource |-> editSource,
        returns |-> "undefined"]
  ELSE LET geojson == undoStack[Len(undoStack)]
           rest == SubSeq(undoStack, 1, Len(undoStack) - 1)
       IN [undoStack |-> rest,
           canUndo |-> Len(rest) > 0,
           editSource |-> readFeatures(geojson, {mergeTarget.uid}),
           returns |-> "undefined"]

\* ------------------------------------------------------------ interactions
\* removeInteractions() leaving the merge target as it is
removeInteractionsKeepTarget ==
  IF ~map
  THEN [installed |-> installed, mergeTarget |-> mergeTarget]
  ELSE [installed |-> NoInteractions, mergeTarget |-> mergeTarget]

\* removeInteractions(): the interactions and the merge target after the call
removeInteractions ==
  IF ~map
  THEN [installed |-> installed, mergeTarget |-> mergeTarget]
  ELSE [installed |-> NoInteractions,
        mergeTarget |-> IF installed.mergeClickHandler THEN NoFeature
                        ELSE mergeTarget]

\* activateDrawMode() adding its interactions without removing the ones set
activateDrawModeKeeping ==
  IF ~map THEN [installed |-> installed, mergeTarget |-> mergeTarget]
  ELSE [installed |-> [installed EXCEPT !.drawPolygon = TRUE, !.modify = TRUE,
                                        !.snap = TRUE, !.gridSnap = TRUE],
        mergeTarget |-> mergeTarget]

activateDrawMode ==
  IF ~map THEN [installed |-> installed, mergeTarget |-> mergeTarget]
  ELSE [removeInteractions EXCEPT
          !.installed = [@ EXCEPT !.drawPolygon = TRUE, !.modify = TRUE,
                                  !.snap = TRUE, !.gridSnap = TRUE]]

activateSplitMode ==
  IF ~map THEN [installed |-> installed, mergeTarget |-> mergeTarget]
  ELSE [removeInteractions EXCEPT
          !.installed = [@ EXCEPT !.drawLine = TRUE, !.snap = TRUE,
                                  !.gridSnap = TRUE]]

activateDeleteMode ==
  IF ~map THEN [installed |-> installed, mergeTarget |-> mergeTarget]
  ELSE [removeInteractions EXCEPT
          !.installed = [@ EXCEPT !.deleteClickHandler = TRUE]]

activateMergeMode ==
  IF ~map THEN [installed |-> installed, mergeTarget |-> mergeTarget]
  ELSE [removeInteractions EXCEPT
          !.installed = [@ EXCEPT !.mergeClickHandler = TRUE]]

\* the callback of watch(editMode, ...) for the new value mode
watchCallback(mode) ==
  IF ~map THEN [installed |-> installed, mergeTarget |-> mergeTarget]
  ELSE IF mode = "draw" THEN activateDrawMode
  ELSE IF mode = "split" THEN activateSplitMode
  ELSE IF mode = "delete" THEN activateDeleteMode
  ELSE IF mode = "merge" THEN activateMergeMode
  ELSE removeInteractions

\* ------------------------------------------------------------------ split
\* polyCoords / getCoords: the MultiPolygon of a GeoJSON geometry
getCoords(gj) == gj.polygons

snapThresholdSq == (bufferDistance * 3) * (bufferDistance * 3)

\* the loop body of splitPolygon without the snapping of the result rings
\* onto the line
splitOneUnsnapped(feature, bufferPoly, lineCoords) ==
  LET polyCoords == getCoords(writeFeatureObject(feature))
      result == clipDifference(polyCoords, bufferPoly)
  IN IF Len(result) = 0
     THEN [remove |-> FALSE, add |-> <<>>]
     ELSE IF Len(result) <= 1 /\ Len(polyCoords) <= 1
     THEN [remove |-> TRUE, add |-> <<readFeature(Polygon(result[1]))>>]
     ELSE [remove |-> TRUE,
           add |-> [i \in 1..Len(result) |-> readFeature(Polygon(result[i]))]]

\* the loop body of splitPolygon putting all the result polygons of a Feature
\* into one new MultiPolygon Feature
splitOneMerged(feature, bufferPoly, lineCoords) ==
  LET polyCoords == getCoords(writeFeatureObject(feature))
      result == clipDifference(polyCoords, bufferPoly)
      processed == [i \in 1..Len(result) |->
                      polygonOf(processRings(ringsOf(result[i]), lineCoords,
                                             snapThresholdSq))]
  IN IF Len(result) = 0
     THEN [remove |-> FALSE, add |-> <<>>]
     ELSE IF Len(result) <= 1 /\ Len(polyCoords) <= 1
     THEN [remove |-> TRUE, add |-> <<readFeature(Polygon(processed[1]))>>]
     ELSE [remove |-> TRUE, add |-> <<readFeature(MultiPolygon(processed))>>]

\* the loop body of splitPolygon adding the single result polygon of a
\* Feature without queueing the Feature for removal
splitOneKept(feature, bufferPoly, lineCoords) ==
  LET polyCoords == getCoords(writeFeatureObject(feature))
      result == clipDifference(polyCoords, bufferPoly)
      processed == [i \in 1..Len(result) |->
                      polygonOf(processRings(ringsOf(result[i]), lineCoords,
                                             snapThresholdSq))]
  IN IF Len(result) = 0
     THEN [remove |-> FALSE, add |-> <<>>]
     ELSE IF Len(result) <= 1 /\ Len(polyCoords) <= 1
     THEN [remove |-> FALSE, add |-> <<readFeature(Polygon(processed[1]))>>]
     ELSE [remove |-> TRUE,
           add |-> [i \in 1..Len(result) |-> readFeature(Polygon(processed[i]))]]

\* the body of the loop of splitPolygon for one Feature: whether it is
\* queued for removal, and the geometries of the Features queued for adding
splitOne(feature, bufferPoly, lineCoords) ==
  LET polyCoords == getCoords(writeFeatureObject(feature))
      result == clipDifference(polyCoords, bufferPoly)
      processed == [i \in 1..Len(result) |->
                      polygonOf(processRings(ringsOf(result[i]), lineCoords,
                                             snapThresholdSq))]
  IN IF Len(result) = 0
     THEN [remove |-> FALSE, add |-> <<>>]
     ELSE IF Len(result) <= 1 /\ Len(polyCoords) <= 1
     THEN [remove |-> TRUE, add |-> <<readFeature(Polygon(processed[1]))>>]
     ELSE [remove |-> TRUE,
           add |-> [i \in 1..Len(result) |-> readFeature(Polygon(processed[i]))]]

\* lineCoords of splitPolygon: the coordinates of the drawn line as
\* format.writeFeatureObject gives them (longitudes)
lineCoordsOf(splitFeature) ==
  [i \in 1..Len(splitFeature) |->
     <<toLonLat(splitFeature[i][1]), toLonLat(splitFeature[i][2])>>]

\* splitPolygon(splitFeature): whether the call threw, and the Store after it.
\* splitFeature is the drawn line, in the view projection.
splitPolygon(splitFeature) ==
  LET lineCoords == lineCoordsOf(splitFeature)
      bufferPoly == bufferLine(lineCoords, bufferDistance)
      n == Len(editSource)
      out == [i \in 1..n |-> splitOne(editSource[i], bufferPoly.polygons, lineCoords)]
      featuresToRemove == {i \in 1..n : out[i].remove}
      featuresToAdd == Concat([i \in 1..n |-> out[i].add])
  IN IF ~bufferPoly.defined
     THEN [threw |-> FALSE, editSource |-> editSource]
     ELSE IF \E i \in 1..n : invalidInput(getCoords(writeFeatureObject(editSource[i])))
     THEN [threw |-> TRUE, editSource |-> editSource]
     ELSE [threw |-> FALSE,
           editSource |-> Without(editSource, featuresToRemove)
                            \o newFeatures(featuresToAdd, liveUids)]

\* ------------------------------------------------------------------ merge
\* mergeFeatures returning the first polygon of the union as a Polygon
mergeFeaturesFirst(target, source) ==
  LET a == getCoords(writeFeatureObject(target))
      b == getCoords(writeFeatureObject(source))
      result == clipUnion(a, b)
      none == [threw |-> FALSE, defined |-> FALSE,
               geometry |-> MultiPolygon(<<>>)]
  IN IF invalidInput(a) \/ invalidInput(b) THEN [none EXCEPT !.threw = TRUE]
     ELSE IF Len(result) = 0 THEN none
     ELSE [threw |-> FALSE, defined |-> TRUE,
           geometry |-> readFeature(Polygon(result[1]))]

\* mergeFeatures returning a Feature for an empty union as well
mergeFeaturesEmptyKept(target, source) ==
  LET a == getCoords(writeFeatureObject(target))
      b == getCoords(writeFeatureObject(source))
      result == clipUnion(a, b)
      none == [threw |-> FALSE, defined |-> FALSE,
               geometry |-> MultiPolygon(<<>>)]
  IN IF invalidInput(a) \/ invalidInput(b) THEN [none EXCEPT !.threw = TRUE]
     ELSE [threw |-> FALSE, defined |-> TRUE,
           geometry |-> readFeature(IF Len(result) = 1 THEN Polygon(result[1])
                                    ELSE MultiPolygon(result))]

\* mergeFeatures(target, source): [threw, defined, geometry]
mergeFeatures(target, source) ==
  LET a == getCoords(writeFeatureObject(target))
      b == getCoords(writeFeatureObject(source))
      result == clipUnion(a, b)
      none == [threw |-> FALSE, defined |-> FALSE, geometry |-> NoFeature.geometry]
  IN IF invalidInput(a) \/ invalidInput(b) THEN [none EXCEPT !.threw = TRUE]
     ELSE IF Len(result) = 0 THEN none
     ELSE [threw |-> FALSE, defined |-> TRUE,
           geometry |-> readFeature(IF Len(result) = 1 THEN Polygon(result[1])
                                    ELSE MultiPolygon(result))]

\* ---------------------------------------------------------------- history
\* The history variables record what the claims speak of; no action reads them.

\* the geometries of the Store, as a snapshot holds them
contents(features) == writeFeaturesObject(features)

\* s and t hold the same elements the same number of times
sameBag(s, t) ==
  /\ Len(s) = Len(t)
  /\ \A x \in Range(s) :
       Cardinality({i \in 1..Len(s) : s[i] = x}) = Cardinality({i \in 1..Len(t) : t[i] = x})

\* a handler other than undo() ran: it is logged as an operation when it
\* changed the Store or pushed a snapshot
recordEdit ==
  /\ changeLog' = IF editSource' # editSource \/ undoStack' # undoStack
                  THEN Append(changeLog, [before |-> contents(editSource),
                                          changed |-> editSource' # editSource])
                  ELSE changeLog
  /\ undone' = 0

\* undo() was called: it takes back the last logged operation
recordUndo ==
  /\ changeLog' = IF changeLog = <<>> THEN changeLog
                  ELSE SubSeq(changeLog, 1, Len(changeLog) - 1)
  /\ undone' = IF changeLog # <<>> /\ changeLog[Len(changeLog)].changed
               THEN undone + 1 ELSE 0

\* a step that is no edit operation
recordNone ==
  /\ UNCHANGED changeLog
  /\ undone' = 0

\* ---------------------------------------------------------------- actions
\* No timer and no microtask is pending.  The timer of the split handler has
\* no delay: the browser runs its callback, and every queued microtask,
\* before it delivers the user's next event.
idle == timers = 0 /\ page.microtasks = <<>>

\* lastOp after a handler: the handlers return nothing ("undefined")
op(kind, outcome) ==
  [kind |-> kind, outcome |-> outcome, hit |-> 0, returned |-> "undefined"]
click(kind, outcome, hit) ==
  [kind |-> kind, outcome |-> outcome, hit |-> hit, returned |-> "undefined"]

\* initEdit(mapInstance)
InitEdit ==
  /\ idle
  /\ ~map
  /\ map' = TRUE
  /\ lastOp' = op("initEdit", "none")
  /\ UNCHANGED <<editMode, editSource, splitSource, undoStack,
                 canUndo, installed, mergeTarget, timers>>
  /\ recordNone
  /\ UNCHANGED pruning
  /\ UNCHANGED page
  /\ UNCHANGED gridVars

\* the mode change clearing the Store along with the interactions
SetEditModeClearing(m) ==
  /\ idle
  /\ m # editMode
  /\ editMode' = m
  /\ installed' = watchCallback(m).installed
  /\ mergeTarget' = watchCallback(m).mergeTarget
  /\ editSource' = IF map THEN <<>> ELSE editSource
  /\ lastOp' = op("setEditMode",
                  IF mergeTarget # NoFeature /\ watchCallback(m).mergeTarget = NoFeature
                  THEN "targetCleared" ELSE "none")
  /\ UNCHANGED <<map, splitSource, undoStack, canUndo, timers>>
  /\ recordNone
  /\ UNCHANGED pruning
  /\ UNCHANGED page
  /\ UNCHANGED gridVars

\* editMode.value = m, and the callback of watch(editMode, ...) for it: Vue
\* runs the callback in a microtask, before the browser delivers another event
SetEditMode(m) ==
  /\ idle
  /\ m # editMode
  /\ editMode' = m
  /\ installed' = watchCallback(m).installed
  /\ mergeTarget' = watchCallback(m).mergeTarget
  /\ lastOp' = op("setEditMode",
                  IF mergeTarget # NoFeature /\ watchCallback(m).mergeTarget = NoFeature
                  THEN "targetCleared" ELSE "none")
  /\ UNCHANGED <<map, editSource, splitSource, undoStack, canUndo, timers>>
  /\ recordNone
  /\ UNCHANGED pruning
  /\ UNCHANGED page
  /\ UNCHANGED gridVars

\* the modes the buttons of the wizard request
UiModes == {"draw", "split", "delete", "merge"}

\* setMode assigning the requested mode whatever the mode is
setModeSticky(mode) == mode

\* the value setMode(mode) assigns to editMode.value: a second request for
\* the active mode switches it off
setMode(mode) == IF editMode = mode THEN "null" ELSE mode

\* a click on a mode button of the wizard: setMode(mode), and the watcher
SetMode(mode) == SetEditMode(setMode(mode))

\* the draw gesture removing the Features the new polygon covers
DrawEndCovering(p) ==
  /\ idle
  /\ installed.drawPolygon
  /\ Len(undoStack) < MaxUndo
  /\ Len(editSource) < MaxFeatures
  /\ undoStack' = saveSnapshot.undoStack
  /\ canUndo' = saveSnapshot.canUndo
  /\ editSource' =
       Without(editSource,
               {i \in 1..Len(editSource) :
                  clipDifference(getCoords(writeFeatureObject(editSource[i])),
                                 <<p>>) = <<>>})
         \o newFeatures(<<readFeature(Polygon(p))>>, liveUids)
  /\ lastOp' = op("drawEnd", "added")
  /\ UNCHANGED <<map, editMode, splitSource, installed, mergeTarget,
                 timers>>
  /\ recordEdit
  /\ UNCHANGED pruning
  /\ UNCHANGED page
  /\ UNCHANGED gridVars

\* drawPolygon.on('drawend', () => saveSnapshot()), after which the Draw
\* interaction adds the sketch Feature to its source, editSource
DrawEnd(p) ==
  /\ idle
  /\ installed.drawPolygon
  /\ Len(undoStack) < MaxUndo
  /\ Len(editSource) < MaxFeatures
  /\ undoStack' = saveSnapshot.undoStack
  /\ canUndo' = saveSnapshot.canUndo
  /\ editSource' = editSource \o newFeatures(<<readFeature(Polygon(p))>>, liveUids)
  /\ lastOp' = op("drawEnd", "added")
  /\ UNCHANGED <<map, editMode, splitSource, installed, mergeTarget,
                 timers>>
  /\ recordEdit
  /\ UNCHANGED pruning
  /\ UNCHANGED page
  /\ UNCHANGED gridVars

\* modify.on('modifystart', () => saveSnapshot()), after which the Modify
\* interaction moves vertices of the Feature at position i in place
ModifyStart(i, p) ==
  /\ idle
  /\ installed.modify
  /\ Len(undoStack) < MaxUndo
  /\ i \in 1..Len(editSource)
  /\ editSource[i].geometry.type = "Polygon"
  /\ editSource[i].geometry # readFeature(Polygon(p))
  /\ undoStack' = saveSnapshot.undoStack
  /\ canUndo' = saveSnapshot.canUndo
  /\ editSource' = [editSource EXCEPT ![i].geometry = readFeature(Polygon(p))]
  /\ lastOp' = op("modifyStart", "modified")
  /\ UNCHANGED <<map, editMode, splitSource, installed, mergeTarget,
                 timers>>
  /\ recordEdit
  /\ UNCHANGED pruning
  /\ UNCHANGED page
  /\ UNCHANGED gridVars

\* the split gesture with the Draw interaction created on editSource: the
\* line becomes a Feature of the Store
DrawLineEndIntoStore(line) ==
  LET splitFeature == [i \in 1..Len(line) |->
                         <<fromLonLat(line[i][1]), fromLonLat(line[i][2])>>]
  IN /\ idle
     /\ installed.drawLine
     /\ Len(undoStack) < MaxUndo
     /\ \E split \in {splitPolygon(splitFeature)} :
          /\ Len(split.editSource) < MaxFeatures
          /\ undoStack' = saveSnapshot.undoStack
          /\ canUndo' = saveSnapshot.canUndo
          /\ editSource' =
               IF split.threw THEN split.editSource
               ELSE split.editSource
                      \o newFeatures(<<[type |-> "LineString", polygons |-> <<>>]>>,
                                     liveUids \cup uidsOf(split.editSource))
          /\ timers' = IF split.threw THEN timers ELSE timers + 1
          /\ splitSource' = splitSource
          /\ lastOp' = op("drawLineEnd",
                          IF split.threw THEN "threw"
                          ELSE IF Len(dedupeLine(line)) < 2 THEN "degenerate"
                          ELSE "split")
     /\ UNCHANGED <<map, editMode, installed, mergeTarget>>
     /\ recordEdit
     /\ UNCHANGED pruning
     /\ UNCHANGED page
     /\ UNCHANGED gridVars

\* drawLine.on('drawend', (event) => { saveSnapshot(); splitPolygon(event.feature);
\* setTimeout(...) }), after which the Draw interaction adds the line to its
\* source, splitSource.  When splitPolygon throws, neither the timer nor the
\* line is set.
DrawLineEnd(line) ==
  LET splitFeature == [i \in 1..Len(line) |->
                         <<fromLonLat(line[i][1]), fromLonLat(line[i][2])>>]
  IN /\ idle
     /\ installed.drawLine
     /\ Len(undoStack) < MaxUndo
     /\ \E split \in {splitPolygon(splitFeature)} :
          /\ Len(split.editSource) <= MaxFeatures
          /\ undoStack' = saveSnapshot.undoStack
          /\ canUndo' = saveSnapshot.canUndo
          /\ editSource' = split.editSource
          /\ timers' = IF split.threw THEN timers ELSE timers + 1
          /\ splitSource' = IF split.threw THEN splitSource
                            ELSE Append(splitSource, splitFeature)
          /\ lastOp' = op("drawLineEnd",
                          IF split.threw THEN "threw"
                          ELSE IF Len(dedupeLine(line)) < 2 THEN "degenerate"
                          ELSE "split")
     /\ UNCHANGED <<map, editMode, installed, mergeTarget>>
     /\ recordEdit
     /\ UNCHANGED pruning
     /\ UNCHANGED page
     /\ UNCHANGED gridVars

\* the callback of setTimeout(() => splitSource.clear(), 0)
ClearSplitSource ==
  /\ timers > 0
  /\ timers' = timers - 1
  /\ splitSource' = <<>>
  /\ lastOp' = op("clearSplitSource", "none")
  /\ UNCHANGED <<map, editMode, editSource, undoStack, canUndo,
                 installed, mergeTarget>>
  /\ recordNone
  /\ UNCHANGED pruning
  /\ UNCHANGED page
  /\ UNCHANGED gridVars

\* deleteClickHandler(event); hit is the position in the Store of the
\* Feature forEachFeatureAtPixel finds under the click, 0 when it finds none
DeleteClick(hit) ==
  /\ idle
  /\ installed.deleteClickHandler
  /\ hit \in 0..Len(editSource)
  /\ IF hit # 0
     THEN /\ Len(undoStack) < MaxUndo
          /\ undoStack' = saveSnapshot.undoStack
          /\ canUndo' = saveSnapshot.canUndo
          /\ editSource' = Without(editSource, {hit})
          /\ lastOp' = click("deleteClick", "removed", hit)
     ELSE /\ lastOp' = click("deleteClick", "miss", hit)
          /\ UNCHANGED <<undoStack, canUndo, editSource>>
  /\ UNCHANGED <<map, editMode, splitSource, installed, mergeTarget,
                 timers>>
  /\ recordEdit
  /\ UNCHANGED pruning
  /\ UNCHANGED page
  /\ UNCHANGED gridVars

\* mergeClickHandler(event); hit as for DeleteClick
MergeClick(hit) ==
  /\ idle
  /\ installed.mergeClickHandler
  /\ hit \in 0..Len(editSource)
  /\ IF hit = 0
     THEN /\ lastOp' = click("mergeClick", "miss", hit)
          /\ UNCHANGED <<undoStack, canUndo, editSource, mergeTarget>>
     ELSE IF mergeTarget = NoFeature
     THEN /\ mergeTarget' = editSource[hit]
          /\ lastOp' = click("mergeClick", "target", hit)
          /\ UNCHANGED <<undoStack, canUndo, editSource>>
     ELSE IF editSource[hit].uid = mergeTarget.uid
     THEN /\ lastOp' = click("mergeClick", "same", hit)
          /\ UNCHANGED <<undoStack, canUndo, editSource, mergeTarget>>
     ELSE \E merged \in {mergeFeatures(mergeTarget, editSource[hit])} :
            IF merged.threw
            THEN /\ lastOp' = click("mergeClick", "threw", hit)
                 /\ UNCHANGED <<undoStack, canUndo, editSource, mergeTarget>>
            ELSE IF ~merged.defined
            THEN /\ lastOp' = click("mergeClick", "empty", hit)
                 /\ UNCHANGED <<undoStack, canUndo, editSource, mergeTarget>>
            ELSE \E added \in {newFeatures(<<merged.geometry>>, liveUids)} :
                   /\ Len(undoStack) < MaxUndo
                   /\ undoStack' = saveSnapshot.undoStack
                   /\ canUndo' = saveSnapshot.canUndo
                   /\ editSource' =
                        Without(editSource,
                                {hit, positionOf(editSource, mergeTarget.uid)})
                          \o added
                   /\ mergeTarget' = added[1]
                   /\ lastOp' = click("mergeClick", "merged", hit)
  /\ UNCHANGED <<map, editMode, splitSource, installed, timers>>
  /\ recordEdit
  /\ UNCHANGED pruning
  /\ UNCHANGED page
  /\ UNCHANGED gridVars

\* undo()
Undo ==
  /\ idle
  /\ \E after \in {undo} :
       /\ undoStack' = after.undoStack
       /\ canUndo' = after.canUndo
       /\ editSource' = after.editSource
       /\ lastOp' = [op("undo", IF ~map \/ Len(undoStack) = 0 THEN "nothing"
                                ELSE "applied")
                       EXCEPT !.returned = after.returns]
  /\ UNCHANGED <<map, editMode, splitSource, installed, mergeTarget,
                 timers>>
  /\ recordUndo
  /\ UNCHANGED pruning
  /\ UNCHANGED page
  /\ UNCHANGED gridVars

\* importGeoJSON clearing the Store before it adds the Features read
ImportGeoJSONReplacing(geojson) ==
  /\ idle
  /\ IF ~map
     THEN /\ lastOp' = op("importGeoJSON", "nomap")
          /\ UNCHANGED <<undoStack, canUndo, editSource>>
     ELSE /\ Len(undoStack) < MaxUndo
          /\ Len(editSource) + Len(geojson) <= MaxFeatures
          /\ undoStack' = saveSnapshot.undoStack
          /\ canUndo' = saveSnapshot.canUndo
          /\ editSource' = readFeatures(geojson, liveUids)
          /\ lastOp' = op("importGeoJSON", "loaded")
  /\ UNCHANGED <<map, editMode, splitSource, installed, mergeTarget,
                 timers>>
  /\ recordEdit
  /\ UNCHANGED pruning
  /\ UNCHANGED page
  /\ UNCHANGED gridVars

\* importGeoJSON(geojson)
ImportGeoJSON(geojson) ==
  /\ idle
  /\ IF ~map
     THEN /\ lastOp' = op("importGeoJSON", "nomap")
          /\ UNCHANGED <<undoStack, canUndo, editSource>>
     ELSE /\ Len(undoStack) < MaxUndo
          /\ Len(editSource) + Len(geojson) <= MaxFeatures
          /\ undoStack' = saveSnapshot.undoStack
          /\ canUndo' = saveSnapshot.canUndo
          /\ editSource' = editSource \o readFeatures(geojson, liveUids)
          /\ lastOp' = op("importGeoJSON", "loaded")
  /\ UNCHANGED <<map, editMode, splitSource, installed, mergeTarget,
                 timers>>
  /\ recordEdit
  /\ UNCHANGED pruning
  /\ UNCHANGED page
  /\ UNCHANGED gridVars

\* ------------------------------------------------------------------ grid
\* the ids of the grid cells the user can click
Cells == {"a", "b"}

\* the polygon of grid cell id in the grid tiles (longitudes)
gridCellBoundary(id) == IF id = "a" THEN <<0, 10>> ELSE <<10, 30>>

\* exportGeoJSON leaving the clipped polygons in the Store
exportGeoJSONClipsStore(gridCellId) ==
  LET gridFeature == gridSnapSource[1]
      gridCoords == writeFeatureObject(gridFeature).polygons[1]
      polyCoords == [i \in 1..Len(editSource) |->
                       getCoords(writeFeatureObject(editSource[i]))]
      clipped == [i \in 1..Len(editSource) |->
                    clipIntersection(polyCoords[i], <<gridCoords>>)]
      exportFeatures == Concat([i \in 1..Len(editSource) |->
                          [j \in 1..Len(clipped[i]) |->
                             [properties |-> {},
                              geometry |-> Polygon(clipped[i][j])]]])
      none == [performed |-> FALSE, threw |-> FALSE,
               file |-> [name |-> gridCellId, features |-> <<>>],
               editSource |-> editSource]
  IN IF ~map THEN none
     ELSE IF gridSnapSource = <<>> THEN none
     ELSE IF \E i \in 1..Len(editSource) : invalidInput(polyCoords[i])
     THEN [none EXCEPT !.threw = TRUE]
     ELSE [performed |-> TRUE, threw |-> FALSE,
           file |-> [name |-> gridCellId, features |-> exportFeatures],
           editSource |-> readFeatures([k \in 1..Len(exportFeatures) |->
                                          exportFeatures[k].geometry],
                                       {mergeTarget.uid})]

\* exportGeoJSON numbering the files it hands out
exportGeoJSONNumbered(gridCellId) ==
  LET gridFeature == gridSnapSource[1]
      gridCoords == writeFeatureObject(gridFeature).polygons[1]
      polyCoords == [i \in 1..Len(editSource) |->
                       getCoords(writeFeatureObject(editSource[i]))]
      clipped == [i \in 1..Len(editSource) |->
                    clipIntersection(polyCoords[i], <<gridCoords>>)]
      exportFeatures == Concat([i \in 1..Len(editSource) |->
                          [j \in 1..Len(clipped[i]) |->
                             [properties |-> {},
                              geometry |-> Polygon(clipped[i][j])]]])
      none == [performed |-> FALSE, threw |-> FALSE,
               file |-> [name |-> gridCellId, features |-> <<>>],
               editSource |-> editSource]
  IN IF ~map THEN none
     ELSE IF gridSnapSource = <<>> THEN none
     ELSE IF \E i \in 1..Len(editSource) : invalidInput(polyCoords[i])
     THEN [none EXCEPT !.threw = TRUE]
     ELSE [performed |-> TRUE, threw |-> FALSE,
           file |-> [name |-> <<gridCellId, Len(downloads)>>,
                     features |-> exportFeatures],
           editSource |-> editSource]

\* exportGeoJSON writing one Feature for each Feature of the Store that
\* reaches into the boundary, with all polygons of the intersection in it
exportGeoJSONPerFeature(gridCellId) ==
  LET gridFeature == gridSnapSource[1]
      gridCoords == writeFeatureObject(gridFeature).polygons[1]
      polyCoords == [i \in 1..Len(editSource) |->
                       getCoords(writeFeatureObject(editSource[i]))]
      clipped == [i \in 1..Len(editSource) |->
                    clipIntersection(polyCoords[i], <<gridCoords>>)]
      exportFeatures == Concat([i \in 1..Len(editSource) |->
                          IF Len(clipped[i]) = 0 THEN <<>>
                          ELSE <<[properties |-> {},
                                  geometry |-> IF Len(clipped[i]) = 1
                                               THEN Polygon(clipped[i][1])
                                               ELSE MultiPolygon(clipped[i])]>>])
      none == [performed |-> FALSE, threw |-> FALSE,
               file |-> [name |-> gridCellId, features |-> <<>>],
               editSource |-> editSource]
  IN IF ~map THEN none
     ELSE IF gridSnapSource = <<>> THEN none
     ELSE IF \E i \in 1..Len(editSource) : invalidInput(polyCoords[i])
     THEN [none EXCEPT !.threw = TRUE]
     ELSE [performed |-> TRUE, threw |-> FALSE,
           file |-> [name |-> gridCellId, features |-> exportFeatures],
           editSource |-> editSource]

\* exportGeoJSON(gridCellId): whether a file was downloaded, whether the call
\* threw, the file, and the Store after the call.  A Feature of the file is
\* [properties, geometry]; {} is the object without properties.
exportGeoJSON(gridCellId) ==
  LET gridFeature == gridSnapSource[1]
      gridCoords == writeFeatureObject(gridFeature).polygons[1]
      polyCoords == [i \in 1..Len(editSource) |->
                       getCoords(writeFeatureObject(editSource[i]))]
      clipped == [i \in 1..Len(editSource) |->
                    clipIntersection(polyCoords[i], <<gridCoords>>)]
      exportFeatures == Concat([i \in 1..Len(editSource) |->
                          [j \in 1..Len(clipped[i]) |->
                             [properties |-> {},
                              geometry |-> Polygon(clipped[i][j])]]])
      none == [performed |-> FALSE, threw |-> FALSE,
               file |-> [name |-> gridCellId, features |-> <<>>],
               editSource |-> editSource]
  IN IF ~map THEN none
     ELSE IF gridSnapSource = <<>> THEN none
     ELSE IF \E i \in 1..Len(editSource) : invalidInput(polyCoords[i])
     THEN [none EXCEPT !.threw = TRUE]
     ELSE [performed |-> TRUE, threw |-> FALSE,
           file |-> [name |-> gridCellId, features |-> exportFeatures],
           editSource |-> editSource]

\* initGrid(layer, map, mapGroup), as useMap calls it: no initial cell
InitGrid ==
  /\ idle
  /\ ~grid
  /\ grid' = TRUE
  /\ lastOp' = op("initGrid", "none")
  /\ UNCHANGED <<selectedGridCellId, gridSnapSource, fetches, downloads,
                 exportRequested>>
  /\ UNCHANGED editVars
  /\ recordNone
  /\ UNCHANGED pruning
  /\ UNCHANGED page

\* the most history entries a checked run pushes
MaxHistory == 2

\* pushState() of useHash when selectedGridCellId.value is gridCellId: the
\* page after the call.  window.location.hash is '' for a URL without a cell
\* id, which never equals the '#' pushState builds for no selection.
pushState(gridCellId) ==
  IF ~page.hashInit \/ page.suppressWatcher THEN page
  ELSE IF gridCellId # "undefined" /\ gridCellId = page.location THEN page
  ELSE [page EXCEPT !.location = gridCellId, !.pushed = @ + 1]

\* the singleclick handler of the grid selecting cells in an edit mode as well
MapSingleClickAlways(cell) ==
  /\ idle
  /\ grid
  /\ IF cell = "undefined"
     THEN /\ selectedGridCellId' = "undefined"
          /\ gridSnapSource' = IF selectedGridCellId # "undefined" THEN <<>>
                               ELSE gridSnapSource
          /\ UNCHANGED fetches
     ELSE /\ Len(fetches) < MaxFetches
          /\ selectedGridCellId' = cell
          /\ gridSnapSource' = <<>>
          /\ fetches' = Append(fetches, cell)
  /\ exportRequested' = IF selectedGridCellId' = selectedGridCellId
                        THEN exportRequested ELSE "undefined"
  /\ page' = IF selectedGridCellId' = selectedGridCellId THEN page
             ELSE pushState(selectedGridCellId')
  /\ page'.pushed <= MaxHistory
  /\ lastOp' = op("singleclick", IF cell = "undefined" THEN "deselected" ELSE "selected")
  /\ UNCHANGED <<grid, downloads>>
  /\ UNCHANGED editVars
  /\ recordNone
  /\ UNCHANGED pruning

\* the singleclick handler initGrid registers, with selectGridCell and the part
\* of setGridSnapFeature before its await; cell is the grid cell under the
\* click, "undefined" when there is none.  In an edit mode the handler returns
\* at once.  A changed selection runs the watcher of useHash, which pushes a
\* history entry (the watcher of the wizard finds the mode Idle already).
MapSingleClick(cell) ==
  /\ idle
  /\ grid
  /\ IF editMode # "null"
     THEN /\ lastOp' = op("singleclick", "ignored")
          /\ UNCHANGED <<selectedGridCellId, gridSnapSource, fetches,
                         exportRequested, page>>
     ELSE /\ IF cell = "undefined"
             THEN /\ selectedGridCellId' = "undefined"
                  /\ gridSnapSource' = IF selectedGridCellId # "undefined" THEN <<>>
                                       ELSE gridSnapSource
                  /\ UNCHANGED fetches
             ELSE /\ Len(fetches) < MaxFetches
                  /\ selectedGridCellId' = cell
                  /\ gridSnapSource' = <<>>
                  /\ fetches' = Append(fetches, cell)
          /\ exportRequested' = IF selectedGridCellId' = selectedGridCellId
                                THEN exportRequested ELSE "undefined"
          /\ page' = IF selectedGridCellId' = selectedGridCellId THEN page
                     ELSE pushState(selectedGridCellId')
          /\ page'.pushed <= MaxHistory
          /\ lastOp' = op("singleclick",
                          IF cell = "undefined" THEN "deselected" ELSE "selected")
  /\ UNCHANGED <<grid, downloads>>
  /\ UNCHANGED editVars
  /\ recordNone
  /\ UNCHANGED pruning

\* the rest of setGridSnapFeature(gridCellId): the k-th fetch in flight
\* settles, with the Feature of the cell or with undefined
FetchSettle(k, found) ==
  /\ idle
  /\ k \in 1..Len(fetches)
  /\ fetches' = Without(fetches, {k})
  /\ gridSnapSource' =
       IF found
       THEN Append(gridSnapSource,
                   [geometry |-> readFeature(Polygon(gridCellBoundary(fetches[k])))])
       ELSE gridSnapSource
  /\ lastOp' = op("fetchSettled", IF found THEN fetches[k] ELSE "undefined")
  /\ UNCHANGED <<grid, selectedGridCellId, downloads, exportRequested>>
  /\ UNCHANGED editVars
  /\ recordNone
  /\ UNCHANGED pruning
  /\ UNCHANGED page

\* the click on "Download GeoJSON": exportGeoJSON(selectedGridCellId!); the
\* button is there while a cell is selected
ExportClick ==
  /\ idle
  /\ selectedGridCellId # "undefined"
  /\ \E export \in {exportGeoJSON(selectedGridCellId)} :
       /\ editSource' = export.editSource
       /\ IF export.performed
          THEN /\ Len(downloads) < MaxDownloads
               /\ downloads' = Append(downloads, export.file)
               /\ exportRequested' = "undefined"
               /\ lastOp' = op("exportGeoJSON", "downloaded")
          ELSE /\ UNCHANGED downloads
               /\ exportRequested' = IF map /\ gridSnapSource = <<>>
                                     THEN selectedGridCellId ELSE exportRequested
               /\ lastOp' = op("exportGeoJSON",
                               IF ~map THEN "nomap"
                               ELSE IF export.threw THEN "threw" ELSE "noboundary")
  /\ UNCHANGED <<grid, selectedGridCellId, gridSnapSource, fetches>>
  /\ UNCHANGED <<map, editMode, splitSource, undoStack, canUndo, installed,
                 mergeTarget, timers>>
  /\ recordNone
  /\ UNCHANGED pruning
  /\ UNCHANGED page

Next ==
  \/ InitEdit
  \/ \E mode \in UiModes : SetMode(mode)
  \/ \E p \in DrawInputs : DrawEnd(p)
  \/ \E i \in 1..MaxFeatures, p \in DrawInputs : ModifyStart(i, p)
  \/ \E line \in SplitInputs : DrawLineEnd(line)
  \/ ClearSplitSource
  \/ \E hit \in 0..MaxFeatures : DeleteClick(hit)
  \/ \E hit \in 0..MaxFeatures : MergeClick(hit)
  \/ Undo
  \/ \E geojson \in ImportInputs : ImportGeoJSON(geojson)

Spec == Init /\ [][Next]_vars

\* The callback of setTimeout(..., 0) is a task of the browser's event loop:
\* once queued it runs.
SpecLive == Spec /\ WF_vars(ClearSplitSource)

\* the modes the grid runs enter: none, and one edit mode
GridModes == {"null", "draw"}

\* the collection the grid runs import: a polygon that fills cell "a", one
\* that lies across the edge between the cells, and a MultiPolygon of two
\* polygons inside cell "a"
GridImportInputs ==
  {<<Polygon(<<0, 10>>), Polygon(<<9, 11>>),
     MultiPolygon(<< <<2, 4>>, <<6, 8>> >>)>>}

\* the grid selection and the export, with the edit operations that fill the
\* Store for it
NextGrid ==
  \/ InitEdit
  \/ InitGrid
  \/ \E m \in GridModes : SetEditMode(m)
  \/ \E geojson \in GridImportInputs : ImportGeoJSON(geojson)
  \/ \E cell \in Cells \cup {"undefined"} : MapSingleClick(cell)
  \/ \E k \in 1..MaxFetches, found \in BOOLEAN : FetchSettle(k, found)
  \/ ExportClick

SpecGrid == Init /\ [][NextGrid]_vars

\* ------------------------------------------------- split post-processing
\* The loop `for (const poly of result)` of splitPolygon, one result polygon
\* at a time with its rings: the Store of the model keeps one ring for each
\* polygon, so the runs over polygons with holes are runs of this loop alone.

\* the ring through the vertices vs, closed as GeoJSON closes it
closedRing(vs) == Append(vs, vs[1])

\* exterior rings (longitudes, in units of bufferDistance; the lines of
\* SplitInputs run along x = 10 from y = -1 to y = 2): a needle beyond the
\* end of the line whose base lies within the snap threshold of that end, a
\* rectangle east of the buffer, a sliver along the line, a triangle far away
needleRing == closedRing(<< <<8, 4>>, <<12, 4>>, <<10, 60>> >>)
eastRing == closedRing(<< <<11, -5>>, <<40, -5>>, <<40, 60>>, <<11, 60>> >>)
sliverRing == closedRing(<< <<8, 0>>, <<9, 0>>, <<9, 1>>, <<8, 1>> >>)
farRing == closedRing(<< <<20, 0>>, <<30, 0>>, <<25, 10>> >>)

\* hole rings: two inside the needle, away from the line; three inside the
\* rectangle, of which the last lies within the snap threshold of the line
needleHoles ==
  {closedRing(<< <<9, 10>>, <<11, 10>>, <<10, 20>> >>),
   closedRing(<< <<9, 30>>, <<11, 30>>, <<10, 40>> >>)}
eastHoles ==
  {closedRing(<< <<20, 10>>, <<30, 10>>, <<30, 20>>, <<20, 20>> >>),
   closedRing(<< <<20, 30>>, <<30, 30>>, <<30, 40>>, <<20, 40>> >>),
   closedRing(<< <<12, 0>>, <<13, 0>>, <<12, 1>> >>)}

\* the polygon of an exterior ring and up to two of the holes, in any order
withHoles(outer, holes) ==
  {<<outer>>}
    \cup {<<outer, h>> : h \in holes}
    \cup {<<outer, hg[1], hg[2]>> : hg \in {x \in holes \X holes : x[1] # x[2]}}

\* an exterior ring east of the buffer with two vertices beyond the end of
\* the line that lie, like its first vertex, within the snap threshold of
\* that end
cornerRing ==
  closedRing(<< <<11, 3>>, <<40, 3>>, <<40, 60>>, <<11, 60>>, <<10, 4>>,
                <<9, 4>> >>)

\* the result polygons the loop is run over
PruneInputs ==
  withHoles(needleRing, needleHoles) \cup withHoles(eastRing, eastHoles)
    \cup {<<sliverRing>>, <<farRing>>, <<cornerRing>>}

\* the split lines for which splitPolygon reaches the loop
PruneLines ==
  {lineCoords \in SplitInputs : bufferLine(lineCoords, bufferDistance).defined}

\* the vertices of the drawn lines, and the longest line drawn
LinePoints == {<<10, -1>>, <<10, 2>>, <<14, 2>>}
MaxLine == 3

\* the polylines handed to bufferLine: the lines of SplitInputs, and every
\* line of up to MaxLine vertices, the empty one included, whose segments
\* run along an axis
BufferInputs ==
  SplitInputs
    \cup {l \in UNION {[1..n -> LinePoints] : n \in 0..MaxLine} :
            \A i \in 1..(Len(l) - 1) :
              l[i][1] = l[i + 1][1] \/ l[i][2] = l[i + 1][2]}

\* the drawend handler of split mode has written the coordinates of the
\* drawn line; the Store and the history play no part in what follows
InitPrune ==
  /\ map = TRUE
  /\ editMode = "split"
  /\ editSource = <<>>
  /\ splitSource = <<>>
  /\ undoStack = <<>>
  /\ canUndo = FALSE
  /\ installed = [NoInteractions EXCEPT !.drawLine = TRUE, !.snap = TRUE,
                                        !.gridSnap = TRUE]
  /\ mergeTarget = NoFeature
  /\ timers = 0
  /\ grid = FALSE
  /\ selectedGridCellId = "undefined"
  /\ gridSnapSource = <<>>
  /\ fetches = <<>>
  /\ downloads = <<>>
  /\ exportRequested = "undefined"
  /\ lastOp = [kind |-> "init", outcome |-> "none", hit |-> 0,
               returned |-> "undefined"]
  /\ changeLog = <<>>
  /\ undone = 0
  /\ page = NoPage
  /\ \E lineCoords \in BufferInputs :
       pruning = [NoPruning EXCEPT !.phase = "line", !.lineCoords = lineCoords]

\* `const bufferPoly = bufferLine(lineCoords, bufferDistance);
\*  if (!bufferPoly) return;` and the difference of one polygon of the Store
\* with the buffer, of which one result polygon enters the loop
BufferLine ==
  /\ pruning.phase = "line"
  /\ \E bufferPoly \in {bufferLine(pruning.lineCoords, bufferDistance)} :
       IF ~bufferPoly.defined
       THEN pruning' = [pruning EXCEPT !.phase = "returned", !.buffer = bufferPoly]
       ELSE \E poly \in PruneInputs :
              pruning' = [pruning EXCEPT !.phase = "loop", !.buffer = bufferPoly,
                                         !.input = poly, !.poly = poly,
                                         !.r = Len(poly)]
  /\ UNCHANGED <<editVars, gridVars, lastOp, changeLog, undone, page>>

\* one pass of `for (let r = poly.length - 1; r >= 0; r--)`: the ring is
\* snapped, its consecutive duplicates are removed, and it is spliced out of
\* the polygon when fewer than 4 vertices are left (r counts from 1 here)
PruneRing ==
  /\ pruning.phase = "loop"
  /\ pruning.r >= 1
  /\ \E snapped \in {[i \in 1..Len(pruning.poly[pruning.r]) |->
                       snapToLine(pruning.poly[pruning.r][i], pruning.lineCoords,
                                  snapThresholdSq)]} :
     \E ring \in {removeConsecutiveDuplicates(snapped, Len(snapped))} :
       pruning' = [pruning EXCEPT
                     !.poly = IF Len(ring) < 4
                              THEN Without(pruning.poly, {pruning.r})
                              ELSE [pruning.poly EXCEPT ![pruning.r] = ring],
                     !.r = pruning.r - 1,
                     !.ring = [snapped |-> snapped, kept |-> ring]]
  /\ UNCHANGED <<editVars, gridVars, lastOp, changeLog, undone, page>>

\* format.readFeature({ ..., geometry: { type: 'Polygon', coordinates: poly } })
\* after the loop: the rings left are the coordinates of the new Feature
ReadResult ==
  /\ pruning.phase = "loop"
  /\ pruning.r = 0
  /\ pruning' = [pruning EXCEPT !.phase = "read", !.coordinates = pruning.poly]
  /\ UNCHANGED <<editVars, gridVars, lastOp, changeLog, undone, page>>

NextPrune ==
  \/ BufferLine
  \/ PruneRing
  \/ ReadResult

SpecPrune == InitPrune /\ [][NextPrune]_vars

\* ------------------------------------------------ start-up and navigation
\* The page from the evaluation of its modules on: the creation of the map,
\* the completion of the style load, the initialisation of the modules, the
\* mode buttons of the wizard, and the browser's back and forward.

\* the hashes the browser navigates to: a cell id, or none
Hashes == Cells \cup {"undefined"}

\* the collection the navigation runs import: two polygons that overlap
NavImportInputs == {<<Polygon(<<0, 10>>), Polygon(<<9, 11>>)>>}

\* the first useMap(): `if (!map) map = createMapInstance();`
UseMap ==
  /\ idle
  /\ ~page.mapCreated
  /\ page' = [page EXCEPT !.mapCreated = TRUE]
  /\ lastOp' = op("useMap", "created")
  /\ UNCHANGED editVars
  /\ UNCHANGED gridVars
  /\ recordNone
  /\ UNCHANGED pruning

\* the callback of apply(mapGroup, './style.json').then(...): initGrid(grid,
\* map, mapGroup) with the module's map as it is.  With no map yet, initGrid
\* throws at map.on(...): no click handler is registered and gridMap stays
\* undefined, so selectGridCellById returns at once ever after.
StyleLoaded ==
  /\ idle
  /\ ~page.styleLoaded
  /\ page' = [page EXCEPT !.styleLoaded = TRUE]
  /\ grid' = page.mapCreated
  /\ lastOp' = op("initGrid", IF page.mapCreated THEN "none" ELSE "threw")
  /\ UNCHANGED <<selectedGridCellId, gridSnapSource, fetches, downloads,
                 exportRequested>>
  /\ UNCHANGED editVars
  /\ recordNone
  /\ UNCHANGED pruning

\* initEdit(map) with the map of useMap()
InitEditOnMap ==
  /\ page.mapCreated
  /\ InitEdit

\* initHash(map) with the map of useMap()
InitHash ==
  /\ idle
  /\ page.mapCreated
  /\ ~page.hashInit
  /\ page' = [page EXCEPT !.hashInit = TRUE]
  /\ lastOp' = op("initHash", page.location)
  /\ UNCHANGED editVars
  /\ UNCHANGED gridVars
  /\ recordNone
  /\ UNCHANGED pruning

\* a click on a mode button: the wizard renders the buttons while a cell is
\* selected (`v-if="!selectedGridCellId"` ... `v-else`)
ModeButtonClick(mode) ==
  /\ selectedGridCellId # "undefined"
  /\ SetMode(mode)

\* the popstate listener with the reset of the flag queued ahead of the
\* watchers
PopStateResetFirst(h) ==
  /\ idle
  /\ page.hashInit
  /\ h \in Hashes
  /\ IF h = selectedGridCellId
     THEN /\ page' = [page EXCEPT !.location = h]
          /\ lastOp' = op("popstate", "same")
          /\ UNCHANGED <<selectedGridCellId, gridSnapSource, fetches,
                         exportRequested>>
     ELSE IF ~grid
     THEN /\ page' = [page EXCEPT !.location = h, !.suppressWatcher = TRUE,
                                  !.microtasks = <<"resetSuppress">>]
          /\ lastOp' = op("popstate", "nogrid")
          /\ UNCHANGED <<selectedGridCellId, gridSnapSource, fetches,
                         exportRequested>>
     ELSE /\ page' = [page EXCEPT !.location = h, !.suppressWatcher = TRUE,
                                  !.microtasks = <<"resetSuppress", "flushJobs">>]
          /\ selectedGridCellId' = h
          /\ gridSnapSource' = <<>>
          /\ IF h = "undefined"
             THEN UNCHANGED fetches
             ELSE /\ Len(fetches) < MaxFetches
                  /\ fetches' = Append(fetches, h)
          /\ exportRequested' = "undefined"
          /\ lastOp' = op("popstate", "restored")
  /\ UNCHANGED <<grid, downloads>>
  /\ UNCHANGED editVars
  /\ recordNone
  /\ UNCHANGED pruning

\* the popstate listener of initHash: restoreState(parseHash()), with
\* selectGridCellById and the part of setGridSnapFeature before its await; h
\* is the hash the browser has moved to.  The assignment to
\* selectedGridCellId queues the flush of the watchers before
\* queueMicrotask queues the reset of the flag.
PopState(h) ==
  /\ idle
  /\ page.hashInit
  /\ h \in Hashes
  /\ IF h = selectedGridCellId
     THEN /\ page' = [page EXCEPT !.location = h]
          /\ lastOp' = op("popstate", "same")
          /\ UNCHANGED <<selectedGridCellId, gridSnapSource, fetches,
                         exportRequested>>
     ELSE IF ~grid
     THEN /\ page' = [page EXCEPT !.location = h, !.suppressWatcher = TRUE,
                                  !.microtasks = <<"resetSuppress">>]
          /\ lastOp' = op("popstate", "nogrid")
          /\ UNCHANGED <<selectedGridCellId, gridSnapSource, fetches,
                         exportRequested>>
     ELSE /\ page' = [page EXCEPT !.location = h, !.suppressWatcher = TRUE,
                                  !.microtasks = <<"flushJobs", "resetSuppress">>]
          /\ selectedGridCellId' = h
          /\ gridSnapSource' = <<>>
          /\ IF h = "undefined"
             THEN UNCHANGED fetches
             ELSE /\ Len(fetches) < MaxFetches
                  /\ fetches' = Append(fetches, h)
          /\ exportRequested' = "undefined"
          /\ lastOp' = op("popstate", "restored")
  /\ UNCHANGED <<grid, downloads>>
  /\ UNCHANGED editVars
  /\ recordNone
  /\ UNCHANGED pruning

\* the flush of the watchers with a wizard that leaves the mode as it is
RunMicrotaskKeepingMode ==
  /\ page.microtasks # <<>>
  /\ IF Head(page.microtasks) = "flushJobs"
     THEN /\ page' = [pushState(selectedGridCellId) EXCEPT
                        !.microtasks = Tail(page.microtasks)]
          /\ page'.pushed <= MaxHistory
          /\ lastOp' = op("microtask", "flushed")
     ELSE /\ page' = [page EXCEPT !.suppressWatcher = FALSE,
                                  !.microtasks = Tail(page.microtasks)]
          /\ lastOp' = op("microtask", "suppressReset")
  /\ UNCHANGED <<editMode, installed, mergeTarget>>
  /\ UNCHANGED <<map, editSource, splitSource, undoStack, canUndo, timers>>
  /\ UNCHANGED gridVars
  /\ recordNone
  /\ UNCHANGED pruning

\* the microtask at the head of the queue.  "flushJobs" is Vue's flush of
\* the watchers of selectedGridCellId after a popstate: the watcher of the
\* wizard sets the mode to null when no cell is selected, which runs the
\* watcher of editMode in the same flush; the watcher of useHash calls
\* pushState() unless the flag is set.  "resetSuppress" is the callback of
\* queueMicrotask in restoreState.
RunMicrotask ==
  /\ page.microtasks # <<>>
  /\ IF Head(page.microtasks) = "flushJobs"
     THEN /\ IF selectedGridCellId = "undefined" /\ editMode # "null"
             THEN /\ editMode' = "null"
                  /\ installed' = watchCallback("null").installed
                  /\ mergeTarget' = watchCallback("null").mergeTarget
                  /\ lastOp' = op("microtask",
                                  IF mergeTarget # NoFeature
                                  THEN "targetCleared" ELSE "modeReset")
             ELSE /\ UNCHANGED <<editMode, installed, mergeTarget>>
                  /\ lastOp' = op("microtask", "flushed")
          /\ page' = [pushState(selectedGridCellId) EXCEPT
                        !.microtasks = Tail(page.microtasks)]
          /\ page'.pushed <= MaxHistory
     ELSE /\ page' = [page EXCEPT !.suppressWatcher = FALSE,
                                  !.microtasks = Tail(page.microtasks)]
          /\ lastOp' = op("microtask", "suppressReset")
          /\ UNCHANGED <<editMode, installed, mergeTarget>>
  /\ UNCHANGED <<map, editSource, splitSource, undoStack, canUndo, timers>>
  /\ UNCHANGED gridVars
  /\ recordNone
  /\ UNCHANGED pruning

NextNav ==
  \/ UseMap
  \/ StyleLoaded
  \/ InitEditOnMap
  \/ InitHash
  \/ \E mode \in UiModes : ModeButtonClick(mode)
  \/ \E geojson \in NavImportInputs : ImportGeoJSON(geojson)
  \/ \E hit \in 0..MaxFeatures : MergeClick(hit)
  \/ \E cell \in Hashes : MapSingleClick(cell)
  \/ \E k \in 1..MaxFetches, found \in BOOLEAN : FetchSettle(k, found)
  \/ \E h \in Hashes : PopState(h)
  \/ RunMicrotask

SpecNav == Init /\ [][NextNav]_vars

\* A queued microtask runs before the browser takes up another task.
SpecNavLive == SpecNav /\ WF_vars(RunMicrotask)

\* ----------------------------------------------------------------- claims
Last(s) == s[Len(s)]

\* C1: N operations followed by N undo() calls bring the geometries of the
\* Store back to what they were before the first of the operations, order and
\* Feature identity aside.  changeLog holds the contents before each of the
\* operations not yet undone, so every undo() of such a run must bring back
\* the contents its last entry holds.
UndoCorrectness ==
  [][(lastOp'.kind = "undo" /\ changeLog # <<>>)
       => sameBag(contents(editSource'), Last(changeLog).before)]_vars

\* two operations that changed the Store were undone by two undo() calls,
\* back to an empty Store
UndoCorrectnessWitness ==
  /\ lastOp.kind = "undo"
  /\ undone = 2
  /\ changeLog = <<>>
  /\ editSource = <<>>

\* the logged operations that changed the Store
changes == {i \in 1..Len(changeLog) : changeLog[i].changed}

\* C2: with a non-empty history, an undo() after a run of gestures and mode
\* changes leaves the Store as it was just before the latest operation that
\* changed it.
UndoRestoresLastChange ==
  [][(lastOp'.kind = "undo" /\ undoStack # <<>> /\ changes # {})
       => sameBag(contents(editSource'),
                  changeLog[CHOOSE i \in changes : \A j \in changes : j <= i].before)]_vars

\* C3: an operation that changes the Store pushes exactly one snapshot, and
\* the snapshot holds the Store as it was before the change.
SnapshotBeforeChange ==
  [][(lastOp'.kind # "undo" /\ editSource' # editSource)
       => undoStack' = Append(undoStack, contents(editSource))]_vars

\* a split has cut a polygon in two, and the history ends with the uncut one
SnapshotBeforeChangeWitness ==
  /\ lastOp.kind = "drawLineEnd"
  /\ lastOp.outcome = "split"
  /\ undoStack # <<>>
  /\ Len(editSource) > Len(Last(undoStack))

\* C4: a split line with fewer than 2 distinct vertices changes neither the
\* Store nor the undo history.
DegenerateGestureIgnored ==
  [][(/\ lastOp'.kind = "drawLineEnd"
      /\ splitSource' # splitSource
      /\ Cardinality(Range(lineCoordsOf(Last(splitSource')))) < 2)
       => (editSource' = editSource /\ undoStack' = undoStack)]_vars

\* the difference of the Feature with the buffer of the drawn line
differenceWithBuffer(feature, splitFeature) ==
  clipDifference(getCoords(writeFeatureObject(feature)),
                 bufferLine(lineCoordsOf(splitFeature), bufferDistance).polygons)

\* C5: a split removes a polygon Feature whose difference with the buffer of
\* the line is empty, and adds no Feature in its place: the Features added are
\* as many as the pieces of the other Features.
ConsumedFeatureRemoved ==
  [][(lastOp'.kind = "drawLineEnd" /\ lastOp'.outcome = "split")
       => LET line == Last(splitSource')
              consumed == {i \in 1..Len(editSource) :
                             /\ getCoords(writeFeatureObject(editSource[i])) # <<>>
                             /\ differenceWithBuffer(editSource[i], line) = <<>>}
              pieces == Concat([i \in 1..Len(editSource) |->
                                  differenceWithBuffer(editSource[i], line)])
              added == {j \in 1..Len(editSource') :
                          editSource'[j].uid \notin uidsOf(editSource)}
          IN /\ \A i \in consumed : editSource[i].uid \notin uidsOf(editSource')
             /\ Cardinality(added) = Len(pieces)]_vars

\* C6: an export asked for while gridSnapSource is empty is performed when the
\* boundary of the selected cell arrives: the step that settles the fetch of
\* that cell with its Feature downloads a file.
ExportDeferred ==
  [][(/\ exportRequested # "undefined"
      /\ lastOp'.kind = "fetchSettled"
      /\ lastOp'.outcome = exportRequested)
       => Len(downloads') = Len(downloads) + 1]_vars

\* the union polygon-clipping computes for two Features
unionOf(target, source) ==
  clipUnion(getCoords(writeFeatureObject(target)),
            getCoords(writeFeatureObject(source)))

\* a merge click on the Feature at position hit finds a target set, another
\* Feature under the click, and geometries the library accepts
secondClick(hit) ==
  /\ hit # 0
  /\ mergeTarget # NoFeature
  /\ editSource[hit].uid # mergeTarget.uid
  /\ ~invalidInput(getCoords(writeFeatureObject(mergeTarget)))
  /\ ~invalidInput(getCoords(writeFeatureObject(editSource[hit])))

\* C7: in Merge mode with target T, a click on another Feature F whose union
\* with T is not empty pushes one snapshot of the Store before the merge,
\* removes T and F, adds one new Feature holding the union (a Polygon when the
\* union is one polygon, a MultiPolygon otherwise) and makes it the target.
MergeReplacesBoth ==
  [][(/\ lastOp'.kind = "mergeClick"
      /\ secondClick(lastOp'.hit)
      /\ unionOf(mergeTarget, editSource[lastOp'.hit]) # <<>>)
       => LET T == mergeTarget
              F == editSource[lastOp'.hit]
              u == unionOf(T, F)
              new == mergeTarget'
          IN /\ undoStack' = Append(undoStack, contents(editSource))
             /\ new.uid \notin uidsOf(editSource) \cup {T.uid}
             /\ new.geometry = readFeature(IF Len(u) = 1 THEN Polygon(u[1])
                                           ELSE MultiPolygon(u))
             /\ editSource' =
                  Append(Without(editSource,
                                 {lastOp'.hit, positionOf(editSource, T.uid)}),
                         new)
             /\ T.uid \notin uidsOf(editSource')
             /\ F.uid \notin uidsOf(editSource')]_vars

\* two Features apart from each other were merged into one MultiPolygon,
\* which is the only Feature of the Store and the target
MergeReplacesBothWitness ==
  /\ lastOp.kind = "mergeClick"
  /\ lastOp.outcome = "merged"
  /\ editSource = <<mergeTarget>>
  /\ mergeTarget.geometry.type = "MultiPolygon"
  /\ Len(mergeTarget.geometry.polygons) = 2
  /\ Len(Last(undoStack)) = 2

\* C8: a merge click that hits no Feature, or the current target, or another
\* Feature whose union with the target is empty, leaves the Store, the undo
\* history and the merge target as they are.
MergeClickIgnored ==
  [][(/\ lastOp'.kind = "mergeClick"
      /\ IF lastOp'.hit = 0 THEN TRUE
         ELSE IF mergeTarget = NoFeature THEN FALSE
         ELSE IF editSource[lastOp'.hit].uid = mergeTarget.uid THEN TRUE
         ELSE /\ secondClick(lastOp'.hit)
              /\ unionOf(mergeTarget, editSource[lastOp'.hit]) = <<>>)
       => (/\ editSource' = editSource
           /\ undoStack' = undoStack
           /\ canUndo' = canUndo
           /\ mergeTarget' = mergeTarget)]_vars

\* a second click on another Feature found the union with the target empty
MergeClickIgnoredWitness ==
  /\ lastOp.kind = "mergeClick"
  /\ lastOp.outcome = "empty"
  /\ lastOp.hit \in 1..Len(editSource)
  /\ secondClick(lastOp.hit)
  /\ unionOf(mergeTarget, editSource[lastOp.hit]) = <<>>
  /\ Len(editSource) = 2

\* C9: leaving Merge mode for another mode or for none clears the pending
\* merge target and changes neither the Store nor the undo history.
LeavingMergeClearsTarget ==
  [][(editMode = "merge" /\ editMode' # "merge")
       => (/\ mergeTarget' = NoFeature
           /\ editSource' = editSource
           /\ undoStack' = undoStack
           /\ canUndo' = canUndo)]_vars

\* Merge mode was left with a target pending, with Features in the Store and
\* snapshots in the history
LeavingMergeClearsTargetWitness ==
  /\ lastOp.kind = "setEditMode"
  /\ lastOp.outcome = "targetCleared"
  /\ editMode # "merge"
  /\ mergeTarget = NoFeature
  /\ editSource # <<>>
  /\ undoStack # <<>>

\* C10: a delete click that hits a Feature pushes one snapshot and removes that
\* Feature and no other; a click that hits none leaves the Store and the
\* history as they are.
DeleteClickRemovesOne ==
  [][(lastOp'.kind = "deleteClick")
       => IF lastOp'.hit # 0
          THEN /\ undoStack' = Append(undoStack, contents(editSource))
               /\ editSource' = Without(editSource, {lastOp'.hit})
          ELSE /\ undoStack' = undoStack
               /\ editSource' = editSource]_vars

\* a delete click removed one of two Features; the other stays, and the
\* history ends with the two
DeleteClickRemovesOneWitness ==
  /\ lastOp.kind = "deleteClick"
  /\ lastOp.hit # 0
  /\ Len(editSource) = 1
  /\ Len(Last(undoStack)) = 2

\* C11: a completed split line pushes exactly one snapshot, and the snapshot
\* holds the Store as it was before the split removed or added any Feature,
\* however many Features the line reaches.
SplitSnapshotOnce ==
  [][(lastOp'.kind = "drawLineEnd")
       => undoStack' = Append(undoStack, contents(editSource))]_vars

\* a split line met a Store of two Features and changed it; the history
\* grew by the one snapshot that holds the two as they were
SplitSnapshotOnceWitness ==
  /\ lastOp.kind = "drawLineEnd"
  /\ lastOp.outcome = "split"
  /\ Len(undoStack) = 2
  /\ Len(Last(undoStack)) = 2
  /\ Len(editSource) = 2
  /\ contents(editSource) # Last(undoStack)

\* the difference of the Feature with the buffer of the drawn line after
\* snapping, duplicate removal and ring pruning
processedDifference(feature, splitFeature) ==
  LET result == differenceWithBuffer(feature, splitFeature)
  IN [j \in 1..Len(result) |->
        polygonOf(processRings(ringsOf(result[j]), lineCoordsOf(splitFeature),
                               snapThresholdSq))]

\* the Features of the sequence after that are not objects of the Store before
addedFeatures(before, after) ==
  Without(after, {j \in 1..Len(after) : after[j].uid \in uidsOf(before)})

\* the geometries of Features
geometriesOf(features) == [j \in 1..Len(features) |-> features[j].geometry]

\* C12: a split removes every Feature whose processed difference holds more
\* than one polygon and adds, in its place, one new Polygon Feature for each
\* of these polygons, side by side in the Store; every Feature the split adds
\* holds a single polygon, so no polygon of another Feature is joined to them.
SplitAddsOnePerPolygon ==
  [][(lastOp'.kind = "drawLineEnd" /\ lastOp'.outcome = "split")
       => LET line == Last(splitSource')
              added == geometriesOf(addedFeatures(editSource, editSource'))
              pieces == Concat([i \in 1..Len(editSource) |->
                                  processedDifference(editSource[i], line)])
          IN /\ \A j \in 1..Len(added) :
                  added[j].type = "Polygon" /\ Len(added[j].polygons) = 1
             /\ Len(added) = Len(pieces)
             /\ \A i \in 1..Len(editSource) :
                  LET d == processedDifference(editSource[i], line)
                  IN Len(d) > 1
                     => /\ editSource[i].uid \notin uidsOf(editSource')
                        /\ \E k \in 0..(Len(added) - Len(d)) :
                             SubSeq(added, k + 1, k + Len(d))
                               = [j \in 1..Len(d) |-> readFeature(Polygon(d[j]))]]_vars

\* a split line cut the first of two Features in two: the Store holds the
\* two halves and the replacement of the Feature the line did not reach, and
\* the history ends with the two Features as they were
SplitAddsOnePerPolygonWitness ==
  /\ lastOp.kind = "drawLineEnd"
  /\ lastOp.outcome = "split"
  /\ Len(Last(undoStack)) = 2
  /\ geometriesOf(editSource)
       = <<readFeature(Polygon(<<0, 10>>)), readFeature(Polygon(<<10, 20>>)),
           readFeature(Polygon(<<30, 40>>))>>

\* C13: a split replaces every Feature of a single polygon whose processed
\* difference holds exactly one polygon by one new Polygon Feature holding
\* that polygon; the Store grows only by the polygons beyond the first of the
\* Features that the line cuts in several.
SplitReplacesSingle ==
  [][(lastOp'.kind = "drawLineEnd" /\ lastOp'.outcome = "split")
       => LET line == Last(splitSource')
              added == geometriesOf(addedFeatures(editSource, editSource'))
              extra == UNION {{<<i, j>> : j \in 2..Len(processedDifference(editSource[i], line))} :
                                i \in 1..Len(editSource)}
          IN /\ Len(editSource') = Len(editSource) + Cardinality(extra)
             /\ \A i \in 1..Len(editSource) :
                  LET d == processedDifference(editSource[i], line)
                  IN (Len(getCoords(writeFeatureObject(editSource[i]))) = 1 /\ Len(d) = 1)
                     => /\ editSource[i].uid \notin uidsOf(editSource')
                        /\ readFeature(Polygon(d[1])) \in Range(added)]_vars

\* a split line along the edge of a polygon left one polygon of it: the
\* Feature was replaced by a new one at the end of the Store, and the Store
\* holds two Features as before
SplitReplacesSingleWitness ==
  /\ lastOp.kind = "drawLineEnd"
  /\ lastOp.outcome = "split"
  /\ Last(undoStack) = <<Polygon(<<0, 10>>), Polygon(<<9, 11>>)>>
  /\ contents(editSource) = <<Polygon(<<9, 11>>), Polygon(<<0, 10>>)>>

\* C14: every polygon a split adds to the Store has at least one ring, and
\* each of its rings has at least 4 vertices of which no two in a row are
\* equal: a result polygon that the pruning leaves without rings is not added.
SplitAddsValidPolygons ==
  [][(lastOp'.kind = "drawLineEnd" /\ lastOp'.outcome = "split")
       => LET added == geometriesOf(addedFeatures(editSource, editSource'))
          IN \A j \in 1..Len(added) :
               \A k \in 1..Len(added[j].polygons) :
                 LET rings == ringsOf(added[j].polygons[k])
                 IN /\ Len(rings) >= 1
                    /\ \A r \in 1..Len(rings) :
                         /\ Len(rings[r]) >= 4
                         /\ \A c \in 2..Len(rings[r]) :
                              rings[r][c] # rings[r][c - 1]]_vars

\* C15: undo() with an empty history does nothing and does not fault: the
\* Store, the history, canUndo, the mode and the merge target stay as they are.
UndoEmptyIsNoop ==
  [][(lastOp'.kind = "undo" /\ undoStack = <<>>)
       => (/\ lastOp'.outcome = "nothing"
           /\ editSource' = editSource
           /\ undoStack' = undoStack
           /\ canUndo' = canUndo
           /\ editMode' = editMode
           /\ mergeTarget' = mergeTarget)]_vars

\* undo() was called with an empty history in Merge mode, with a merge target
\* pending from before the history was emptied
UndoEmptyIsNoopWitness ==
  /\ lastOp.kind = "undo"
  /\ lastOp.outcome = "nothing"
  /\ map
  /\ undoStack = <<>>
  /\ editMode = "merge"
  /\ mergeTarget # NoFeature

\* C16: undo() returns true when it applied a snapshot and false when the
\* history was empty.
UndoReturnsBool ==
  [][(lastOp'.kind = "undo")
       => lastOp'.returned = IF map /\ undoStack # <<>> THEN "true" ELSE "false"]_vars

\* C17: the history is a stack without redo.  undo() never pushes, and an
\* undo() on the history [s1..sn] leaves the Store holding the geometries of
\* sn and the history [s1..s(n-1)]; k calls in a row so step back through
\* sn, ..., s(n-k+1).
UndoIsLifo ==
  [][(lastOp'.kind = "undo")
       => /\ Len(undoStack') <= Len(undoStack)
          /\ (map /\ undoStack # <<>>)
               => /\ undoStack' = SubSeq(undoStack, 1, Len(undoStack) - 1)
                  /\ sameBag(contents(editSource'), Last(undoStack))]_vars

\* one undo() on a history of two records left the first record on the stack
\* and the Features of the second in the Store
UndoIsLifoWitness ==
  /\ lastOp.kind = "undo"
  /\ lastOp.outcome = "applied"
  /\ undone = 1
  /\ Len(undoStack) = 1
  /\ editSource # <<>>

\* C18: a record on the history never changes.  Every step leaves the history
\* as it is, or pushes records on top of the ones that are there, or, in
\* undo() and nowhere else, pops the latest record and no other.
SnapshotsImmutable ==
  [][\/ /\ Len(undoStack') >= Len(undoStack)
        /\ SubSeq(undoStack', 1, Len(undoStack)) = undoStack
     \/ /\ lastOp'.kind = "undo"
        /\ undoStack' = SubSeq(undoStack, 1, Len(undoStack) - 1)]_vars

\* a delete click changed the Store above a history of two records: the first
\* still holds the empty Store and the second the Store before the click
SnapshotsImmutableWitness ==
  /\ lastOp.kind = "deleteClick"
  /\ lastOp.outcome = "removed"
  /\ Len(undoStack) = 2
  /\ undoStack[1] = <<>>
  /\ Len(undoStack[2]) = Len(editSource) + 1

\* C19: exportGeoJSON changes nothing the editing engine owns: whether it
\* downloads a file, finds no boundary, or throws, the Store, the history,
\* canUndo, the mode and the merge target are after the call what they were.
ExportMutatesNothing ==
  [][(lastOp'.kind = "exportGeoJSON")
       => (/\ editSource' = editSource
           /\ undoStack' = undoStack
           /\ canUndo' = canUndo
           /\ editMode' = editMode
           /\ mergeTarget' = mergeTarget)]_vars

\* a file was downloaded in Draw mode, from a Store of which the boundary
\* clips a part away and with a record on the history
ExportMutatesNothingWitness ==
  /\ lastOp.kind = "exportGeoJSON"
  /\ lastOp.outcome = "downloaded"
  /\ editMode = "draw"
  /\ undoStack # <<>>
  /\ Len(editSource) = 3
  /\ contents(editSource) # Last(downloads).features

intersectionWithBoundary(feature) ==
  clipIntersection(getCoords(writeFeatureObject(feature)),
                   <<writeFeatureObject(gridSnapSource[1]).polygons[1]>>)

handlersOf(mode) ==
  IF mode = "draw" THEN {"drawPolygon", "modify"}
  ELSE IF mode = "split" THEN {"drawLine"}
  ELSE IF mode = "delete" THEN {"deleteClickHandler"}
  ELSE IF mode = "merge" THEN {"mergeClickHandler"}
  ELSE {}

\* the gesture handlers that are installed (the Snap interactions aside)
gestureHandlers ==
  {h \in {"drawPolygon", "modify", "drawLine", "deleteClickHandler",
          "mergeClickHandler"} : installed[h]}

\* C22: once the mode watcher has run for the current mode (every state of
\* the model: the watcher runs in the step that sets the mode), the gesture
\* handlers installed are exactly those of the mode, and so never those of
\* two modes.
ModeHandlersExact == gestureHandlers = handlersOf(editMode)

\* C23: a change of the mode, from any mode to any other and to and from
\* none, leaves the Features of the Store and the undo history as they are.
ModeChangeKeepsStore ==
  [][(editMode' # editMode)
       => (/\ editSource' = editSource
           /\ undoStack' = undoStack
           /\ canUndo' = canUndo)]_vars

\* Delete mode was entered with two Features in the Store and two records
\* on the history
ModeChangeKeepsStoreWitness ==
  /\ lastOp.kind = "setEditMode"
  /\ editMode = "delete"
  /\ installed.deleteClickHandler
  /\ Len(editSource) = 2
  /\ Len(undoStack) = 2

\* C24: with a map, an import pushes exactly one snapshot, which holds the
\* Store as it was before the import, keeps every Feature of the Store and
\* adds the Features of the imported collection after them; without a map it
\* changes neither the Store nor the history.
ImportSnapshotsAndAdds ==
  [][(lastOp'.kind = "importGeoJSON")
       => IF map
          THEN /\ undoStack' = Append(undoStack, contents(editSource))
               /\ Len(editSource') >= Len(editSource)
               /\ SubSeq(editSource', 1, Len(editSource)) = editSource
               /\ contents(SubSeq(editSource', Len(editSource) + 1, Len(editSource')))
                    \in ImportInputs
               /\ \A j \in (Len(editSource) + 1)..Len(editSource') :
                    editSource'[j].uid \notin uidsOf(editSource)
          ELSE /\ undoStack' = undoStack
               /\ canUndo' = canUndo
               /\ editSource' = editSource]_vars

\* a collection of two Features was imported into a Store of one: the Store
\* holds three, and the history ends with the record of the one
ImportSnapshotsAndAddsWitness ==
  /\ lastOp.kind = "importGeoJSON"
  /\ lastOp.outcome = "loaded"
  /\ Len(editSource) = 3
  /\ Len(undoStack) = 2
  /\ Len(Last(undoStack)) = 1
  /\ Last(undoStack) = contents(SubSeq(editSource, 1, 1))

\* C25: a completed polygon draw pushes one snapshot of the Store before the
\* draw and adds exactly one new Polygon Feature; every Feature that was in
\* the Store stays as it was, the ones the new polygon overlaps included.
DrawAddsOne ==
  [][(lastOp'.kind = "drawEnd")
       => (/\ undoStack' = Append(undoStack, contents(editSource))
           /\ Len(editSource') = Len(editSource) + 1
           /\ SubSeq(editSource', 1, Len(editSource)) = editSource
           /\ Last(editSource').uid \notin uidsOf(editSource)
           /\ Last(editSource').geometry.type = "Polygon"
           /\ contents(<<Last(editSource')>>) \in {<<Polygon(p)>> : p \in DrawInputs})]_vars

\* a polygon was drawn over a smaller Feature of the Store: both are in the
\* Store, the smaller one first and inside the new one
DrawAddsOneWitness ==
  /\ lastOp.kind = "drawEnd"
  /\ Len(editSource) = 2
  /\ contents(editSource) = <<Polygon(<<8, 11>>), Polygon(<<0, 20>>)>>
  /\ Last(undoStack) = <<Polygon(<<8, 11>>)>>

\* the line (longitudes) runs through the interior of the square p from
\* outside to outside: it starts below the square, ends above it and lies
\* strictly between its west and east edges
crossesInterior(lineCoords, p) ==
  /\ Len(lineCoords) >= 2
  /\ lineCoords[1][2] < 0
  /\ lineCoords[Len(lineCoords)][2] > 1
  /\ \A i \in 1..Len(lineCoords) : p[1] < lineCoords[i][1] /\ lineCoords[i][1] < p[2]

\* both sides of the line are wider than the snap threshold of splitPolygon
clearOfEdges(lineCoords, p) ==
  \A i \in 1..Len(lineCoords) :
    /\ lineCoords[i][1] - p[1] > 3 * bufferDistance
    /\ p[2] - lineCoords[i][1] > 3 * bufferDistance

\* the polygons of m cover the square p but for a part inside the buffer of
\* the line, and lie inside p
coversUpToSliver(m, p, lineCoords) ==
  /\ clipDifference(m, <<p>>) = <<>>
  /\ LET missing == clipDifference(<<p>>, m)
         sliver == bufferLine(lineCoords, bufferDistance).polygons
     IN clipDifference(missing, sliver) = <<>>

\* the Store holds one square, a split gesture over it has just ended, and
\* the Store holds two Polygon Features whose union mergeFeatures returns as
\* one Polygon that covers the square up to the cut sliver
splitThenMerge(before, after, lineCoords) ==
  /\ Len(after) = 2
  /\ \A i \in 1..2 : after[i].geometry.type = "Polygon"
  /\ \A i \in 1..2 : after[i].uid \notin uidsOf(before)
  /\ \E merged \in {mergeFeatures(after[1], after[2])} :
       /\ ~merged.threw
       /\ merged.defined
       /\ merged.geometry.type = "Polygon"
       /\ coversUpToSliver(getCoords(writeGeometry(merged.geometry)),
                           writeFeatureObject(before[1]).polygons[1], lineCoords)

\* the step is a split gesture over a Store of one square that the line
\* runs through
squareSplit(before, lineCoords) ==
  /\ Len(before) = 1
  /\ before[1].geometry.type = "Polygon"
  /\ before[1].geometry.polygons[1] # <<>>
  /\ crossesInterior(lineCoords, writeFeatureObject(before[1]).polygons[1])

\* C26 as stated: from a Store of one square, a split by any line through
\* the square's interior leaves two Polygon Features, and their merge is one
\* Polygon covering the square up to the cut sliver.
SplitMergeInverse ==
  [][(lastOp'.kind = "drawLineEnd" /\ lastOp'.outcome = "split"
        /\ squareSplit(editSource, lineCoordsOf(Last(splitSource'))))
       => splitThenMerge(editSource, editSource', lineCoordsOf(Last(splitSource')))]_vars

\* C26, amended: the same, for a line that leaves more than the snap
\* threshold (3 * bufferDistance) of the square on either side.
SplitMergeInverseClear ==
  [][(lastOp'.kind = "drawLineEnd" /\ lastOp'.outcome = "split"
        /\ squareSplit(editSource, lineCoordsOf(Last(splitSource')))
        /\ clearOfEdges(lineCoordsOf(Last(splitSource')),
                        writeFeatureObject(editSource[1]).polygons[1]))
       => splitThenMerge(editSource, editSource', lineCoordsOf(Last(splitSource')))]_vars

\* the drawn square was split into its two halves, and the first merge click
\* has chosen one of them
SplitMergeInverseClearWitness ==
  /\ editMode = "merge"
  /\ lastOp.kind = "mergeClick"
  /\ lastOp.outcome = "target"
  /\ mergeTarget = editSource[lastOp.hit]
  /\ contents(editSource) = <<Polygon(<<0, 10>>), Polygon(<<10, 20>>)>>
  /\ Last(undoStack) = <<Polygon(<<0, 20>>)>>

\* no Feature of the Store, of a snapshot or of a downloaded file is a line
noLineStored ==
  /\ \A i \in 1..Len(editSource) : editSource[i].geometry.type # "LineString"
  /\ \A k \in 1..Len(undoStack) : \A i \in 1..Len(undoStack[k]) :
       undoStack[k][i].type # "LineString"
  /\ \A k \in 1..Len(downloads) : \A i \in 1..Len(downloads[k].features) :
       downloads[k].features[i].geometry.type # "LineString"

\* C27: the drawn split line is never a Feature of the Store, of a snapshot
\* or of an export file, and after every split gesture the split-line layer
\* is empty again at some later point.
SplitLineTransient ==
  /\ []noLineStored
  /\ ((lastOp.kind = "drawLineEnd") ~> (splitSource = <<>>))

\* the timer of a split gesture that cut the drawn square has run: the line
\* layer is empty and the Store holds the two halves
SplitLineTransientWitness ==
  /\ lastOp.kind = "clearSplitSource"
  /\ splitSource = <<>>
  /\ timers = 0
  /\ contents(editSource) = <<Polygon(<<0, 10>>), Polygon(<<10, 20>>)>>
  /\ Len(undoStack) = 2

\* C28: whenever a merge target is set, it is a Feature of the Store.
MergeTargetInStore ==
  (mergeTarget # NoFeature)
    => \E i \in 1..Len(editSource) : editSource[i] = mergeTarget

\* C29: the snap reference set holds at most one Feature, and when it holds
\* one, a cell is selected and the Feature is that cell's boundary.
SnapIsSelectedBoundary ==
  /\ Len(gridSnapSource) <= 1
  /\ (gridSnapSource # <<>>)
       => /\ selectedGridCellId \in Cells
          /\ writeFeatureObject(gridSnapSource[1])
               = Polygon(gridCellBoundary(selectedGridCellId))

\* C30: the Feature read from a post-processed result polygon has no hole of
\* the result as its exterior ring: its first ring, if it has one, is the
\* processed exterior ring of the result.
HoleNeverOuterRing ==
  (pruning.phase = "read" /\ pruning.coordinates # <<>>)
    => pruning.coordinates[1]
         = processRing(pruning.input[1], pruning.lineCoords, snapThresholdSq)

\* C34: a merge target is pending only while the mode is Merge: in Idle,
\* Draw, Split and Delete no merge target is set.
MergeTargetOnlyInMerge ==
  (editMode # "merge") => (mergeTarget = NoFeature)

\* Draw mode was entered from Merge mode, where a click had chosen a target
\* out of two Features
MergeTargetOnlyInMergeWitness ==
  /\ lastOp.kind = "setEditMode"
  /\ lastOp.outcome = "targetCleared"
  /\ editMode = "draw"
  /\ installed.drawPolygon
  /\ ~installed.mergeClickHandler
  /\ mergeTarget = NoFeature
  /\ Len(editSource) = 2

\* C35: canUndo.value is true exactly when the undo history holds a record.
CanUndoIffHistory ==
  canUndo <=> (undoStack # <<>>)

\* an undo() has taken the last record off the history, after an undo() that
\* took the one before: the flag is down again
CanUndoIffHistoryWitness ==
  /\ lastOp.kind = "undo"
  /\ lastOp.outcome = "applied"
  /\ undone = 2
  /\ undoStack = <<>>
  /\ ~canUndo
  /\ map

\* C33: a request for mode m is never refused; it sets the mode to Idle when
\* m is the active mode and to m otherwise.  (A request arrives when no timer
\* callback is pending: the browser runs the callback first.)
ModeRequestToggles ==
  /\ [](idle => \A mode \in UiModes : ENABLED SetMode(mode))
  /\ [][\A mode \in UiModes :
          SetMode(mode)
            => editMode' = (IF editMode = mode THEN "null" ELSE mode)]_vars

\* Merge mode was switched off by a second request for it, with a target
\* pending
ModeRequestTogglesWitness ==
  /\ lastOp.kind = "setEditMode"
  /\ lastOp.outcome = "targetCleared"
  /\ editMode = "null"
  /\ installed = NoInteractions
  /\ map

\* C32: in an edit mode a single click on the map changes neither the
\* selected grid cell nor the snap reference set (and starts no fetch).
EditModeClickKeepsSelection ==
  [][(lastOp'.kind = "singleclick" /\ editMode # "null")
       => (/\ selectedGridCellId' = selectedGridCellId
           /\ gridSnapSource' = gridSnapSource
           /\ fetches' = fetches)]_vars

\* a click on the map in Draw mode, with cell a selected and its boundary in
\* the snap reference set
EditModeClickKeepsSelectionWitness ==
  /\ lastOp.kind = "singleclick"
  /\ lastOp.outcome = "ignored"
  /\ editMode = "draw"
  /\ selectedGridCellId = "a"
  /\ Len(gridSnapSource) = 1

\* C38: bufferLine returns nothing for every polyline with at most one
\* distinct vertex, the empty polyline and a polyline of repeated identical
\* points included; for every polyline with two distinct consecutive
\* vertices it returns the union of one rectangle for each segment of the
\* polyline that has a length.
BufferLineResult ==
  (pruning.phase # "line")
    => LET l == pruning.lineCoords
           segments == {i \in 1..(Len(l) - 1) : l[i] # l[i + 1]}
       IN /\ (Cardinality(Range(l)) <= 1) => ~pruning.buffer.defined
          /\ (segments # {}) => pruning.buffer.defined
          /\ pruning.buffer.defined
               => pruning.buffer.polygons
                    = clipUnion(sortPolygons(
                        {segmentRectangle(l[i], l[i + 1], bufferDistance) :
                           i \in segments}), <<>>)

\* bufferLine has returned the buffer of a line whose first vertex is
\* repeated: one segment without a length, one with
BufferLineResultWitness ==
  /\ pruning.phase = "loop"
  /\ pruning.lineCoords = << <<10, 2>>, <<10, 2>>, <<14, 2>> >>
  /\ pruning.buffer = [defined |-> TRUE, polygons |-> << <<9, 15>> >>]

\* C39: the duplicate removal of the split leaves no two consecutive equal
\* vertices in a ring, and a closed ring of which at least 4 vertices are
\* kept is closed afterwards.
DuplicateRemovalKeepsClosure ==
  LET snapped == pruning.ring.snapped
      kept == pruning.ring.kept
  IN (snapped # <<>>)
       => /\ \A c \in 2..Len(kept) : kept[c] # kept[c - 1]
          /\ (snapped[1] = snapped[Len(snapped)] /\ Len(kept) >= 4)
               => kept[1] = kept[Len(kept)]

\* the closing vertex of a ring and the two vertices before it were snapped
\* onto the end of the line; the three duplicates were removed and the ring
\* is kept, closed, with 5 vertices
DuplicateRemovalKeepsClosureWitness ==
  /\ pruning.phase = "loop"
  /\ pruning.input = <<cornerRing>>
  /\ pruning.r = 0
  /\ Len(pruning.ring.snapped) = 7
  /\ pruning.ring.snapped[5] = pruning.ring.snapped[7]
  /\ pruning.ring.snapped[6] = pruning.ring.snapped[7]
  /\ Len(pruning.ring.kept) = 5
  /\ pruning.ring.kept[1] = pruning.ring.kept[5]
  /\ pruning.poly = <<pruning.ring.kept>>

\* C37: initGrid is never called with an undefined map: the callback of the
\* style load has run only when the map instance has been created.
StyleCallbackAfterMap ==
  page.styleLoaded => page.mapCreated

\* C31: once the watchers have run, an edit mode is active only while a grid
\* cell is selected: with no cell selected, whatever emptied the selection,
\* the mode is Idle, no gesture handler is installed and no merge target is
\* set.
ModeNeedsSelection ==
  (page.microtasks = <<>> /\ selectedGridCellId = "undefined")
    => /\ editMode = "null"
       /\ installed = NoInteractions
       /\ mergeTarget = NoFeature

\* the browser went back to the URL without a cell while the mode was Merge
\* with a target chosen: the watchers have reset the mode
ModeNeedsSelectionWitness ==
  /\ lastOp.kind = "microtask"
  /\ lastOp.outcome = "targetCleared"
  /\ selectedGridCellId = "undefined"
  /\ page.location = "undefined"
  /\ editMode = "null"
  /\ installed = NoInteractions
  /\ mergeTarget = NoFeature
  /\ Len(editSource) = 2

\* C36: a popstate pushes no history entry, and changes nothing when the
\* hash's cell id is the selected one; the flag it sets is reset before the
\* next event, so that the next selection by a click pushes an entry again.
PopStateNeverPushes ==
  /\ [][/\ (page'.pushed # page.pushed) => (lastOp'.kind = "singleclick")
        /\ (lastOp'.kind = "popstate" /\ page'.location = selectedGridCellId)
             => /\ selectedGridCellId' = selectedGridCellId
                /\ gridSnapSource' = gridSnapSource
                /\ fetches' = fetches
                /\ page' = [page EXCEPT !.location = page'.location]
                /\ editMode' = editMode
        /\ (lastOp'.kind = "singleclick" /\ page.hashInit
              /\ selectedGridCellId' # selectedGridCellId)
             => (page'.pushed = page.pushed + 1
                   \/ page.location = selectedGridCellId')]_vars
  /\ [](page.microtasks = <<>> => ~page.suppressWatcher)
  /\ (page.suppressWatcher ~> ~page.suppressWatcher)

\* a click had selected cell a and pushed an entry; the browser went back to
\* the URL without a cell, the selection was emptied without a push, and the
\* flag has been reset
PopStateNeverPushesWitness ==
  /\ lastOp.kind = "microtask"
  /\ lastOp.outcome = "suppressReset"
  /\ page.microtasks = <<>>
  /\ ~page.suppressWatcher
  /\ page.pushed = 1
  /\ page.location = "undefined"
  /\ selectedGridCellId = "undefined"
  /\ fetches = <<"a">>

=============================================================================
